---- MODULE Spec2Model ----
(***************************************************************************)
(* Model of the repository conversion pipeline (routes/convert): the File  *)
(* Selector and Fetcher (fetchFiles), the Batch Planner and Orchestrator   *)
(* (the POST / handler), the Conversion Engine (convertBatch) and the      *)
(* Fallback Generator (createFallbackFiles).                               *)
(*                                                                         *)
(* JavaScript strings that the code takes apart (paths, language names)    *)
(* are sequences of one-character strings.  A JavaScript value whose type  *)
(* the code tests is a record tagged with its type in field t.             *)
(***************************************************************************)
EXTENDS Integers, Sequences, FiniteSets, TLC

\* ------------------------------------------------------------------ bounds
\* Largest number of entries of a repository tree.
MaxTree == 3

\* ------------------------------------------------------- program constants
\* fetchFiles: sortedFiles.slice(0, 200)
maxEntries == 200
\* fetchFiles: const batchSize = 10 (content requests per window)
batchSize == 10
\* fetchFiles: decoded.length > 100000 is skipped
sizeCeiling == 100000
\* convert handler: const sizeLimit = 80000
sizeLimit == 80000
\* createFallbackFiles: file.content.substring(0, 1000)
excerptLimit == 1000

\* ---------------------------------------------------------- string helpers
\* A character of a string (a UTF-16 code unit) is a one-character string
\* when it is printable ASCII, and the name of its code point otherwise
\* ("U+00C9"; also U+0060, which no string of TLA+ can hold).  The
\* characters of the strings of the model are those of Latin-1 (U+0000 to
\* U+00FF), the Greek mus and sigmas, U+212A KELVIN SIGN, U+0130 and
\* U+0307.

\* The function that a set of pairs <<argument, value>> tabulates.
tableOf(pairs) ==
  [c \in {p[1] : p \in pairs} |-> (CHOOSE p \in pairs : p[1] = c)[2]]

\* String.prototype.toLowerCase: the characters that have a lower case,
\* with the code units of it.
lowerCase ==
  tableOf({
    <<"A", <<"a">>>>, <<"B", <<"b">>>>, <<"C", <<"c">>>>, <<"D", <<"d">>>>, <<"E", <<"e">>>>,
    <<"F", <<"f">>>>, <<"G", <<"g">>>>, <<"H", <<"h">>>>, <<"I", <<"i">>>>, <<"J", <<"j">>>>,
    <<"K", <<"k">>>>, <<"L", <<"l">>>>, <<"M", <<"m">>>>, <<"N", <<"n">>>>, <<"O", <<"o">>>>,
    <<"P", <<"p">>>>, <<"Q", <<"q">>>>, <<"R", <<"r">>>>, <<"S", <<"s">>>>, <<"T", <<"t">>>>,
    <<"U", <<"u">>>>, <<"V", <<"v">>>>, <<"W", <<"w">>>>, <<"X", <<"x">>>>, <<"Y", <<"y">>>>,
    <<"Z", <<"z">>>>, <<"U+00C0", <<"U+00E0">>>>, <<"U+00C1", <<"U+00E1">>>>,
    <<"U+00C2", <<"U+00E2">>>>, <<"U+00C3", <<"U+00E3">>>>, <<"U+00C4", <<"U+00E4">>>>,
    <<"U+00C5", <<"U+00E5">>>>, <<"U+00C6", <<"U+00E6">>>>, <<"U+00C7", <<"U+00E7">>>>,
    <<"U+00C8", <<"U+00E8">>>>, <<"U+00C9", <<"U+00E9">>>>, <<"U+00CA", <<"U+00EA">>>>,
    <<"U+00CB", <<"U+00EB">>>>, <<"U+00CC", <<"U+00EC">>>>, <<"U+00CD", <<"U+00ED">>>>,
    <<"U+00CE", <<"U+00EE">>>>, <<"U+00CF", <<"U+00EF">>>>, <<"U+00D0", <<"U+00F0">>>>,
    <<"U+00D1", <<"U+00F1">>>>, <<"U+00D2", <<"U+00F2">>>>, <<"U+00D3", <<"U+00F3">>>>,
    <<"U+00D4", <<"U+00F4">>>>, <<"U+00D5", <<"U+00F5">>>>, <<"U+00D6", <<"U+00F6">>>>,
    <<"U+00D8", <<"U+00F8">>>>, <<"U+00D9", <<"U+00F9">>>>, <<"U+00DA", <<"U+00FA">>>>,
    <<"U+00DB", <<"U+00FB">>>>, <<"U+00DC", <<"U+00FC">>>>, <<"U+00DD", <<"U+00FD">>>>,
    <<"U+00DE", <<"U+00FE">>>>, <<"U+039C", <<"U+03BC">>>>, <<"U+03A3", <<"U+03C3">>>>,
    <<"U+212A", <<"k">>>>, <<"U+0130", <<"i","U+0307">>>> })

\* The characters that are cased letters, and those that case mapping
\* looks through (Unicode Cased and Case_Ignorable).
casedChars == {
  "A", "B", "C", "D", "E", "F", "G", "H", "I", "J", "K", "L", "M", "N", "O", "P", "Q", "R", "S",
  "T", "U", "V", "W", "X", "Y", "Z", "a", "b", "c", "d", "e", "f", "g", "h", "i", "j", "k", "l",
  "m", "n", "o", "p", "q", "r", "s", "t", "u", "v", "w", "x", "y", "z", "U+00AA", "U+00B5",
  "U+00BA", "U+00C0", "U+00C1", "U+00C2", "U+00C3", "U+00C4", "U+00C5", "U+00C6", "U+00C7",
  "U+00C8", "U+00C9", "U+00CA", "U+00CB", "U+00CC", "U+00CD", "U+00CE", "U+00CF", "U+00D0",
  "U+00D1", "U+00D2", "U+00D3", "U+00D4", "U+00D5", "U+00D6", "U+00D8", "U+00D9", "U+00DA",
  "U+00DB", "U+00DC", "U+00DD", "U+00DE", "U+00DF", "U+00E0", "U+00E1", "U+00E2", "U+00E3",
  "U+00E4", "U+00E5", "U+00E6", "U+00E7", "U+00E8", "U+00E9", "U+00EA", "U+00EB", "U+00EC",
  "U+00ED", "U+00EE", "U+00EF", "U+00F0", "U+00F1", "U+00F2", "U+00F3", "U+00F4", "U+00F5",
  "U+00F6", "U+00F8", "U+00F9", "U+00FA", "U+00FB", "U+00FC", "U+00FD", "U+00FE", "U+00FF",
  "U+039C", "U+03BC", "U+03A3", "U+03C3", "U+03C2", "U+212A", "U+0130" }

caseIgnorableChars == {
  "'", ".", ":", "^", "U+0060", "U+00A8", "U+00AD", "U+00AF", "U+00B4", "U+00B7", "U+00B8",
  "U+0307" }

\* String.prototype.toLowerCase on one character, out of context.
toLowerChar(c) == IF c \in DOMAIN lowerCase THEN lowerCase[c] ELSE <<c>>

\* The condition Final_Sigma of Unicode case mapping on position i of s: a
\* cased letter stands before it and none after it, characters that case
\* mapping looks through aside.
finalSigma(s, i) ==
  /\ \E j \in 1..(i - 1) :
       s[j] \in casedChars /\ \A k \in (j + 1)..(i - 1) : s[k] \in caseIgnorableChars
  /\ ~\E j \in (i + 1)..Len(s) :
       s[j] \in casedChars /\ \A k \in (i + 1)..(j - 1) : s[k] \in caseIgnorableChars

RECURSIVE concatAll(_)
\* The concatenation of a sequence of strings.
concatAll(parts) ==
  IF parts = <<>> THEN <<>> ELSE Head(parts) \o concatAll(Tail(parts))

\* String.prototype.toLowerCase.
toLowerCase(s) ==
  concatAll([i \in 1..Len(s) |->
               IF s[i] = "U+03A3" /\ finalSigma(s, i) THEN <<"U+03C2">>
               ELSE toLowerChar(s[i])])

\* String.prototype.toUpperCase on the characters that the i flag of a
\* regular expression maps: those whose upper case is one code unit, and
\* is no ASCII character unless they are ASCII themselves.
upperCase ==
  tableOf({
    <<"a", "A">>, <<"b", "B">>, <<"c", "C">>, <<"d", "D">>, <<"e", "E">>, <<"f", "F">>,
    <<"g", "G">>, <<"h", "H">>, <<"i", "I">>, <<"j", "J">>, <<"k", "K">>, <<"l", "L">>,
    <<"m", "M">>, <<"n", "N">>, <<"o", "O">>, <<"p", "P">>, <<"q", "Q">>, <<"r", "R">>,
    <<"s", "S">>, <<"t", "T">>, <<"u", "U">>, <<"v", "V">>, <<"w", "W">>, <<"x", "X">>,
    <<"y", "Y">>, <<"z", "Z">>, <<"U+00B5", "U+039C">>, <<"U+00E0", "U+00C0">>,
    <<"U+00E1", "U+00C1">>, <<"U+00E2", "U+00C2">>, <<"U+00E3", "U+00C3">>,
    <<"U+00E4", "U+00C4">>, <<"U+00E5", "U+00C5">>, <<"U+00E6", "U+00C6">>,
    <<"U+00E7", "U+00C7">>, <<"U+00E8", "U+00C8">>, <<"U+00E9", "U+00C9">>,
    <<"U+00EA", "U+00CA">>, <<"U+00EB", "U+00CB">>, <<"U+00EC", "U+00CC">>,
    <<"U+00ED", "U+00CD">>, <<"U+00EE", "U+00CE">>, <<"U+00EF", "U+00CF">>,
    <<"U+00F0", "U+00D0">>, <<"U+00F1", "U+00D1">>, <<"U+00F2", "U+00D2">>,
    <<"U+00F3", "U+00D3">>, <<"U+00F4", "U+00D4">>, <<"U+00F5", "U+00D5">>,
    <<"U+00F6", "U+00D6">>, <<"U+00F8", "U+00D8">>, <<"U+00F9", "U+00D9">>,
    <<"U+00FA", "U+00DA">>, <<"U+00FB", "U+00DB">>, <<"U+00FC", "U+00DC">>,
    <<"U+00FD", "U+00DD">>, <<"U+00FE", "U+00DE">>, <<"U+00FF", "U+0178">>,
    <<"U+03BC", "U+039C">>, <<"U+03C3", "U+03A3">>, <<"U+03C2", "U+03A3">> })

\* Canonicalize of a regular expression with the i flag and no u flag.
canonicalizeChar(c) == IF c \in DOMAIN upperCase THEN upperCase[c] ELSE c

\* The characters of s as such an expression compares them.
canonicalize(s) == [i \in 1..Len(s) |-> canonicalizeChar(s[i])]

\* sub occurs in s starting at position i.
occursAt(s, sub, i) ==
  /\ i >= 1
  /\ i + Len(sub) - 1 <= Len(s)
  /\ \A k \in 1..Len(sub) : s[i + k - 1] = sub[k]

\* String.prototype.includes.
includes(s, sub) == \E i \in 1..(Len(s) - Len(sub) + 1) : occursAt(s, sub, i)

\* A regular expression /sub$/ for a literal sub.
endsWith(s, sub) == occursAt(s, sub, Len(s) - Len(sub) + 1)

\* Positions of the one-character separator sep in s.
sepPositions(s, sep) == {i \in 1..Len(s) : s[i] = sep}

RECURSIVE split(_, _)
\* String.prototype.split on a one-character separator: the pieces between
\* the separators, empty pieces included.
split(s, sep) ==
  IF sepPositions(s, sep) = {} THEN <<s>>
  ELSE LET p == CHOOSE i \in sepPositions(s, sep) :
                  \A j \in sepPositions(s, sep) : i <= j
       IN <<SubSeq(s, 1, p - 1)>> \o split(SubSeq(s, p + 1, Len(s)), sep)

RECURSIVE join(_, _)
\* Array.prototype.join with separator string sep.
join(parts, sep) ==
  IF Len(parts) = 0 THEN <<>>
  ELSE IF Len(parts) = 1 THEN parts[1]
  ELSE parts[1] \o sep \o join(Tail(parts), sep)

\* Array.prototype.slice(0, -1).
dropLast(parts) == SubSeq(parts, 1, Len(parts) - 1)

\* Array.prototype.slice(0, n).
sliceFirst(seq, n) == SubSeq(seq, 1, IF Len(seq) < n THEN Len(seq) ELSE n)

RECURSIVE SelectSeqBy(_, _)
\* Array.prototype.filter for a predicate given as a set of accepted values
\* (the two halves of the sequence are filtered one after the other).
SelectSeqBy(seq, accepted) ==
  IF Len(seq) = 0 THEN <<>>
  ELSE IF Len(seq) = 1 THEN (IF seq[1] \in accepted THEN seq ELSE <<>>)
  ELSE SelectSeqBy(SubSeq(seq, 1, Len(seq) \div 2), accepted)
         \o SelectSeqBy(SubSeq(seq, (Len(seq) \div 2) + 1, Len(seq)), accepted)

\* ------------------------------------------------------- JavaScript values
JSUndefined == [t |-> "undefined"]
JSString(s) == [t |-> "string", s |-> s]
\* A number has its value in n when it is an integer below 10^9, and its
\* sign there otherwise (see numberToken): n is 0 for 0 and for nothing
\* else.
JSNumber(n) == [t |-> "number", n |-> n]

\* ToBoolean, as used by the ! operator.
truthy(v) ==
  CASE v.t = "undefined" -> FALSE
    [] v.t = "null" -> FALSE
    [] v.t = "string" -> v.s # <<>>
    [] v.t = "number" -> v.n # 0
    [] v.t = "boolean" -> v.b
    [] OTHER -> TRUE

\* ------------------------------------------------------------ File Selector
\* isRelevantFile: skipPatterns of the form /dir\//.
skipDirPatterns == {
  <<"n","o","d","e","_","m","o","d","u","l","e","s","/">>, <<".","g","i","t","/">>, <<".","c","a","c","h","e","/">>, <<"d","i","s","t","/">>, <<"b","u","i","l","d","/">>,
  <<"c","o","v","e","r","a","g","e","/">>, <<".","n","y","c","_","o","u","t","p","u","t","/">>, <<".","v","s","c","o","d","e","/">>, <<".","i","d","e","a","/">> }

\* isRelevantFile: skipPatterns of the form /suffix$/.
skipSuffixPatterns == { <<".","D","S","_","S","t","o","r","e">>, <<".","l","o","g">> }

\* isRelevantFile: the alternatives of relevantExtensions.
relevantExtensions == {
  <<"t","s">>, <<"t","s","x">>, <<"j","s">>, <<"j","s","x">>, <<"p","y">>, <<"c","s">>, <<"j","a","v","a">>, <<"g","o">>, <<"r","s">>,
  <<"p","h","p">>, <<"r","b">>, <<"k","t">>, <<"s","c","a","l","a">>, <<"s","q","l">>, <<"s","h">>, <<"y","m","l">>, <<"y","a","m","l">>,
  <<"j","s","o","n">>, <<"h","t","m","l">>, <<"c","s","s">>, <<"s","c","s","s">>, <<"l","e","s","s">>, <<"m","d">>, <<"t","x","t">>, <<"e","n","v">>,
  <<"g","i","t","i","g","n","o","r","e">>, <<"t","o","m","l">>, <<"x","m","l">>, <<"p","r","o","p","e","r","t","i","e","s">>, <<"c","o","n","f">>, <<"i","n","i">>,
  <<"d","o","c","k","e","r","f","i","l","e">>, <<"m","a","k","e","f","i","l","e">>, <<"g","r","a","d","l","e">>, <<"m","a","v","e","n">>, <<"p","o","m">>, <<"p","a","c","k","a","g","e">>,
  <<"l","o","c","k">>, <<"r","e","q","u","i","r","e","m","e","n","t","s">>, <<"g","e","m","f","i","l","e">>, <<"c","a","r","g","o">>, <<"c","o","m","p","o","s","e","r">> }

\* isRelevantFile: the alternatives of importantFiles.
importantFiles == {
  <<"d","o","c","k","e","r","f","i","l","e">>, <<"m","a","k","e","f","i","l","e">>, <<"r","a","k","e","f","i","l","e">>, <<"g","u","l","p","f","i","l","e">>, <<"g","r","u","n","t","f","i","l","e">>,
  <<"w","e","b","p","a","c","k",".","c","o","n","f","i","g">>, <<"r","o","l","l","u","p",".","c","o","n","f","i","g">>, <<"v","i","t","e",".","c","o","n","f","i","g">>, <<"t","s","c","o","n","f","i","g">>,
  <<"j","s","c","o","n","f","i","g">>, <<"b","a","b","e","l",".","c","o","n","f","i","g">>, <<"e","s","l","i","n","t">>, <<"p","r","e","t","t","i","e","r">>, <<"p","a","c","k","a","g","e">>,
  <<"r","e","q","u","i","r","e","m","e","n","t","s">>, <<"g","e","m","f","i","l","e">>, <<"c","a","r","g","o">>, <<"c","o","m","p","o","s","e","r">> }

\* path.split('/').pop() || ''
fileNameOf(path) == LET parts == split(path, "/") IN parts[Len(parts)]

\* isRelevantFile without the test of skipPatterns.
isRelevantFile_noSkip(path) ==
  \/ \E e \in relevantExtensions :
       endsWith(canonicalize(path), canonicalize(<<".">> \o e))
  \/ \E f \in importantFiles : canonicalize(fileNameOf(path)) = canonicalize(f)

isRelevantFile(path) ==
  IF \/ \E p \in skipDirPatterns : includes(path, p)
     \/ \E p \in skipSuffixPatterns : endsWith(path, p)
  THEN FALSE
  ELSE \/ \E e \in relevantExtensions :
            endsWith(canonicalize(path), canonicalize(<<".">> \o e))
       \/ \E f \in importantFiles : canonicalize(fileNameOf(path)) = canonicalize(f)

\* getFilePriority: the substrings that give priority 1.
manifestMarkers == {
  <<"p","a","c","k","a","g","e",".","j","s","o","n">>, <<"r","e","q","u","i","r","e","m","e","n","t","s",".","t","x","t">>, <<"g","e","m","f","i","l","e">>, <<"c","a","r","g","o",".","t","o","m","l">>,
  <<"p","o","m",".","x","m","l">>, <<"c","o","m","p","o","s","e","r",".","j","s","o","n">> }

\* getFilePriority: the substrings that give priority 2.
entrypointMarkers == { <<"m","a","i","n">>, <<"i","n","d","e","x">>, <<"a","p","p",".">>, <<"s","e","r","v","e","r",".">> }

getFilePriority(path) ==
  LET filename == toLowerCase(path)
  IN IF \E m \in manifestMarkers : includes(filename, m) THEN 1
     ELSE IF \E m \in entrypointMarkers : includes(filename, m) THEN 2
     ELSE 3

\* String.prototype.localeCompare: the collation elements of the
\* characters (primary, secondary and tertiary weight, 0 for a level the
\* element does not count on), in the order of the characters.  White
\* space and punctuation come before the digits, the digits before the
\* letters; an accent is an element of its own after the letter's; the
\* tertiary weight tells the case.
collationElements ==
  tableOf({
    <<"U+0000", << <<0,0,0>> >>>>, <<"U+0001", << <<0,0,0>> >>>>, <<"U+0002", << <<0,0,0>> >>>>,
    <<"U+0003", << <<0,0,0>> >>>>, <<"U+0004", << <<0,0,0>> >>>>, <<"U+0005", << <<0,0,0>> >>>>,
    <<"U+0006", << <<0,0,0>> >>>>, <<"U+0007", << <<0,0,0>> >>>>, <<"U+0008", << <<0,0,0>> >>>>,
    <<"U+000E", << <<0,0,0>> >>>>, <<"U+000F", << <<0,0,0>> >>>>, <<"U+0010", << <<0,0,0>> >>>>,
    <<"U+0011", << <<0,0,0>> >>>>, <<"U+0012", << <<0,0,0>> >>>>, <<"U+0013", << <<0,0,0>> >>>>,
    <<"U+0014", << <<0,0,0>> >>>>, <<"U+0015", << <<0,0,0>> >>>>, <<"U+0016", << <<0,0,0>> >>>>,
    <<"U+0017", << <<0,0,0>> >>>>, <<"U+0018", << <<0,0,0>> >>>>, <<"U+0019", << <<0,0,0>> >>>>,
    <<"U+001A", << <<0,0,0>> >>>>, <<"U+001B", << <<0,0,0>> >>>>, <<"U+001C", << <<0,0,0>> >>>>,
    <<"U+001D", << <<0,0,0>> >>>>, <<"U+001E", << <<0,0,0>> >>>>, <<"U+001F", << <<0,0,0>> >>>>,
    <<"U+007F", << <<0,0,0>> >>>>, <<"U+0080", << <<0,0,0>> >>>>, <<"U+0081", << <<0,0,0>> >>>>,
    <<"U+0082", << <<0,0,0>> >>>>, <<"U+0083", << <<0,0,0>> >>>>, <<"U+0084", << <<0,0,0>> >>>>,
    <<"U+0086", << <<0,0,0>> >>>>, <<"U+0087", << <<0,0,0>> >>>>, <<"U+0088", << <<0,0,0>> >>>>,
    <<"U+0089", << <<0,0,0>> >>>>, <<"U+008A", << <<0,0,0>> >>>>, <<"U+008B", << <<0,0,0>> >>>>,
    <<"U+008C", << <<0,0,0>> >>>>, <<"U+008D", << <<0,0,0>> >>>>, <<"U+008E", << <<0,0,0>> >>>>,
    <<"U+008F", << <<0,0,0>> >>>>, <<"U+0090", << <<0,0,0>> >>>>, <<"U+0091", << <<0,0,0>> >>>>,
    <<"U+0092", << <<0,0,0>> >>>>, <<"U+0093", << <<0,0,0>> >>>>, <<"U+0094", << <<0,0,0>> >>>>,
    <<"U+0095", << <<0,0,0>> >>>>, <<"U+0096", << <<0,0,0>> >>>>, <<"U+0097", << <<0,0,0>> >>>>,
    <<"U+0098", << <<0,0,0>> >>>>, <<"U+0099", << <<0,0,0>> >>>>, <<"U+009A", << <<0,0,0>> >>>>,
    <<"U+009B", << <<0,0,0>> >>>>, <<"U+009C", << <<0,0,0>> >>>>, <<"U+009D", << <<0,0,0>> >>>>,
    <<"U+009E", << <<0,0,0>> >>>>, <<"U+009F", << <<0,0,0>> >>>>, <<"U+00AD", << <<0,0,0>> >>>>,
    <<"U+0307", << <<0,10,1>> >>>>, <<"U+0009", << <<1,1,1>> >>>>, <<"U+000A", << <<2,1,1>> >>>>,
    <<"U+000B", << <<3,1,1>> >>>>, <<"U+000C", << <<4,1,1>> >>>>, <<"U+000D", << <<5,1,1>> >>>>,
    <<"U+0085", << <<6,1,1>> >>>>, <<" ", << <<7,1,1>> >>>>, <<"U+00A0", << <<7,1,9>> >>>>,
    <<"_", << <<8,1,1>> >>>>, <<"-", << <<9,1,1>> >>>>, <<",", << <<10,1,1>> >>>>,
    <<";", << <<11,1,1>> >>>>, <<":", << <<12,1,1>> >>>>, <<"!", << <<13,1,1>> >>>>,
    <<"U+00A1", << <<14,1,1>> >>>>, <<"?", << <<15,1,1>> >>>>, <<"U+00BF", << <<16,1,1>> >>>>,
    <<".", << <<17,1,1>> >>>>, <<"U+00B7", << <<18,1,1>> >>>>, <<"'", << <<19,1,1>> >>>>,
    <<"\"", << <<20,1,1>> >>>>, <<"U+00AB", << <<21,1,1>> >>>>, <<"U+00BB", << <<22,1,1>> >>>>,
    <<"(", << <<23,1,1>> >>>>, <<")", << <<24,1,1>> >>>>, <<"[", << <<25,1,1>> >>>>,
    <<"]", << <<26,1,1>> >>>>, <<"{", << <<27,1,1>> >>>>, <<"}", << <<28,1,1>> >>>>,
    <<"U+00A7", << <<29,1,1>> >>>>, <<"U+00B6", << <<30,1,1>> >>>>, <<"@", << <<31,1,1>> >>>>,
    <<"*", << <<32,1,1>> >>>>, <<"/", << <<33,1,1>> >>>>, <<"\\", << <<34,1,1>> >>>>,
    <<"&", << <<35,1,1>> >>>>, <<"#", << <<36,1,1>> >>>>, <<"%", << <<37,1,1>> >>>>,
    <<"U+0060", << <<38,1,1>> >>>>, <<"U+00B4", << <<39,1,1>> >>>>, <<"^", << <<40,1,1>> >>>>,
    <<"U+00AF", << <<41,1,1>> >>>>, <<"U+00A8", << <<42,1,1>> >>>>,
    <<"U+00B8", << <<43,1,1>> >>>>, <<"U+00B0", << <<44,1,1>> >>>>,
    <<"U+00A9", << <<45,1,1>> >>>>, <<"U+00AE", << <<46,1,1>> >>>>, <<"+", << <<47,1,1>> >>>>,
    <<"U+00B1", << <<48,1,1>> >>>>, <<"U+00F7", << <<49,1,1>> >>>>,
    <<"U+00D7", << <<50,1,1>> >>>>, <<"<", << <<51,1,1>> >>>>, <<"=", << <<52,1,1>> >>>>,
    <<">", << <<53,1,1>> >>>>, <<"U+00AC", << <<54,1,1>> >>>>, <<"|", << <<55,1,1>> >>>>,
    <<"U+00A6", << <<56,1,1>> >>>>, <<"~", << <<57,1,1>> >>>>, <<"U+00A4", << <<59,1,1>> >>>>,
    <<"U+00A2", << <<60,1,1>> >>>>, <<"$", << <<61,1,1>> >>>>, <<"U+00A3", << <<62,1,1>> >>>>,
    <<"U+00A5", << <<63,1,1>> >>>>, <<"0", << <<64,1,1>> >>>>, <<"1", << <<65,1,1>> >>>>,
    <<"U+00B9", << <<65,1,8>> >>>>, <<"U+00BD", << <<65,1,11>>, <<58,1,6>>, <<66,1,11>> >>>>,
    <<"U+00BC", << <<65,1,11>>, <<58,1,6>>, <<68,1,11>> >>>>, <<"2", << <<66,1,1>> >>>>,
    <<"U+00B2", << <<66,1,8>> >>>>, <<"3", << <<67,1,1>> >>>>, <<"U+00B3", << <<67,1,8>> >>>>,
    <<"U+00BE", << <<67,1,11>>, <<58,1,6>>, <<68,1,11>> >>>>, <<"4", << <<68,1,1>> >>>>,
    <<"5", << <<69,1,1>> >>>>, <<"6", << <<70,1,1>> >>>>, <<"7", << <<71,1,1>> >>>>,
    <<"8", << <<72,1,1>> >>>>, <<"9", << <<73,1,1>> >>>>, <<"a", << <<74,1,1>> >>>>,
    <<"U+00E1", << <<74,1,1>>, <<0,3,1>> >>>>, <<"U+00E0", << <<74,1,1>>, <<0,4,1>> >>>>,
    <<"U+00E2", << <<74,1,1>>, <<0,5,1>> >>>>, <<"U+00E5", << <<74,1,1>>, <<0,6,1>> >>>>,
    <<"U+00E4", << <<74,1,1>>, <<0,8,1>> >>>>, <<"U+00E3", << <<74,1,1>>, <<0,9,1>> >>>>,
    <<"A", << <<74,1,4>> >>>>, <<"U+00C1", << <<74,1,4>>, <<0,3,1>> >>>>,
    <<"U+00C0", << <<74,1,4>>, <<0,4,1>> >>>>, <<"U+00C2", << <<74,1,4>>, <<0,5,1>> >>>>,
    <<"U+00C5", << <<74,1,4>>, <<0,6,1>> >>>>, <<"U+00C4", << <<74,1,4>>, <<0,8,1>> >>>>,
    <<"U+00C3", << <<74,1,4>>, <<0,9,1>> >>>>, <<"U+00AA", << <<74,1,10>> >>>>,
    <<"U+00E6", << <<74,2,1>>, <<78,1,3>> >>>>, <<"U+00C6", << <<74,2,6>>, <<78,1,7>> >>>>,
    <<"b", << <<75,1,1>> >>>>, <<"B", << <<75,1,4>> >>>>, <<"c", << <<76,1,1>> >>>>,
    <<"U+00E7", << <<76,1,1>>, <<0,12,1>> >>>>, <<"C", << <<76,1,4>> >>>>,
    <<"U+00C7", << <<76,1,4>>, <<0,12,1>> >>>>, <<"d", << <<77,1,1>> >>>>,
    <<"D", << <<77,1,4>> >>>>, <<"U+00F0", << <<77,2,1>> >>>>, <<"U+00D0", << <<77,2,6>> >>>>,
    <<"e", << <<78,1,1>> >>>>, <<"U+00E9", << <<78,1,1>>, <<0,3,1>> >>>>,
    <<"U+00E8", << <<78,1,1>>, <<0,4,1>> >>>>, <<"U+00EA", << <<78,1,1>>, <<0,5,1>> >>>>,
    <<"U+00EB", << <<78,1,1>>, <<0,8,1>> >>>>, <<"E", << <<78,1,4>> >>>>,
    <<"U+00C9", << <<78,1,4>>, <<0,3,1>> >>>>, <<"U+00C8", << <<78,1,4>>, <<0,4,1>> >>>>,
    <<"U+00CA", << <<78,1,4>>, <<0,5,1>> >>>>, <<"U+00CB", << <<78,1,4>>, <<0,8,1>> >>>>,
    <<"f", << <<79,1,1>> >>>>, <<"F", << <<79,1,4>> >>>>, <<"g", << <<80,1,1>> >>>>,
    <<"G", << <<80,1,4>> >>>>, <<"h", << <<81,1,1>> >>>>, <<"H", << <<81,1,4>> >>>>,
    <<"i", << <<82,1,1>> >>>>, <<"U+00ED", << <<82,1,1>>, <<0,3,1>> >>>>,
    <<"U+00EC", << <<82,1,1>>, <<0,4,1>> >>>>, <<"U+00EE", << <<82,1,1>>, <<0,5,1>> >>>>,
    <<"U+00EF", << <<82,1,1>>, <<0,8,1>> >>>>, <<"I", << <<82,1,4>> >>>>,
    <<"U+00CD", << <<82,1,4>>, <<0,3,1>> >>>>, <<"U+00CC", << <<82,1,4>>, <<0,4,1>> >>>>,
    <<"U+00CE", << <<82,1,4>>, <<0,5,1>> >>>>, <<"U+00CF", << <<82,1,4>>, <<0,8,1>> >>>>,
    <<"U+0130", << <<82,1,4>>, <<0,10,1>> >>>>, <<"j", << <<83,1,1>> >>>>,
    <<"J", << <<83,1,4>> >>>>, <<"k", << <<84,1,1>> >>>>, <<"K", << <<84,1,4>> >>>>,
    <<"U+212A", << <<84,1,4>> >>>>, <<"l", << <<85,1,1>> >>>>, <<"L", << <<85,1,4>> >>>>,
    <<"m", << <<86,1,1>> >>>>, <<"M", << <<86,1,4>> >>>>, <<"n", << <<87,1,1>> >>>>,
    <<"U+00F1", << <<87,1,1>>, <<0,9,1>> >>>>, <<"N", << <<87,1,4>> >>>>,
    <<"U+00D1", << <<87,1,4>>, <<0,9,1>> >>>>, <<"o", << <<88,1,1>> >>>>,
    <<"U+00F3", << <<88,1,1>>, <<0,3,1>> >>>>, <<"U+00F2", << <<88,1,1>>, <<0,4,1>> >>>>,
    <<"U+00F4", << <<88,1,1>>, <<0,5,1>> >>>>, <<"U+00F6", << <<88,1,1>>, <<0,8,1>> >>>>,
    <<"U+00F5", << <<88,1,1>>, <<0,9,1>> >>>>, <<"U+00F8", << <<88,1,1>>, <<0,11,1>> >>>>,
    <<"O", << <<88,1,4>> >>>>, <<"U+00D3", << <<88,1,4>>, <<0,3,1>> >>>>,
    <<"U+00D2", << <<88,1,4>>, <<0,4,1>> >>>>, <<"U+00D4", << <<88,1,4>>, <<0,5,1>> >>>>,
    <<"U+00D6", << <<88,1,4>>, <<0,8,1>> >>>>, <<"U+00D5", << <<88,1,4>>, <<0,9,1>> >>>>,
    <<"U+00D8", << <<88,1,4>>, <<0,11,1>> >>>>, <<"U+00BA", << <<88,1,10>> >>>>,
    <<"p", << <<89,1,1>> >>>>, <<"P", << <<89,1,4>> >>>>, <<"q", << <<90,1,1>> >>>>,
    <<"Q", << <<90,1,4>> >>>>, <<"r", << <<91,1,1>> >>>>, <<"R", << <<91,1,4>> >>>>,
    <<"s", << <<92,1,1>> >>>>, <<"S", << <<92,1,4>> >>>>,
    <<"U+00DF", << <<92,2,1>>, <<92,1,3>> >>>>, <<"t", << <<93,1,1>> >>>>,
    <<"T", << <<93,1,4>> >>>>, <<"u", << <<94,1,1>> >>>>,
    <<"U+00FA", << <<94,1,1>>, <<0,3,1>> >>>>, <<"U+00F9", << <<94,1,1>>, <<0,4,1>> >>>>,
    <<"U+00FB", << <<94,1,1>>, <<0,5,1>> >>>>, <<"U+00FC", << <<94,1,1>>, <<0,8,1>> >>>>,
    <<"U", << <<94,1,4>> >>>>, <<"U+00DA", << <<94,1,4>>, <<0,3,1>> >>>>,
    <<"U+00D9", << <<94,1,4>>, <<0,4,1>> >>>>, <<"U+00DB", << <<94,1,4>>, <<0,5,1>> >>>>,
    <<"U+00DC", << <<94,1,4>>, <<0,8,1>> >>>>, <<"v", << <<95,1,1>> >>>>,
    <<"V", << <<95,1,4>> >>>>, <<"w", << <<96,1,1>> >>>>, <<"W", << <<96,1,6>> >>>>,
    <<"x", << <<97,1,1>> >>>>, <<"X", << <<97,1,4>> >>>>, <<"y", << <<98,1,1>> >>>>,
    <<"U+00FD", << <<98,1,1>>, <<0,3,1>> >>>>, <<"U+00FF", << <<98,1,1>>, <<0,8,1>> >>>>,
    <<"Y", << <<98,1,4>> >>>>, <<"U+00DD", << <<98,1,4>>, <<0,3,1>> >>>>,
    <<"z", << <<99,1,1>> >>>>, <<"Z", << <<99,1,4>> >>>>, <<"U+00FE", << <<100,1,1>> >>>>,
    <<"U+00DE", << <<100,1,6>> >>>>, <<"U+03BC", << <<101,1,1>> >>>>,
    <<"U+00B5", << <<101,1,2>> >>>>, <<"U+039C", << <<101,1,6>> >>>>,
    <<"U+03C3", << <<102,1,1>> >>>>, <<"U+03A3", << <<102,1,5>> >>>>,
    <<"U+03C2", << <<102,1,11>> >>>> })

\* The pairs of characters that collate as one unit, with their collation
\* elements (l and L before U+00B7 MIDDLE DOT).
collationContractions ==
  tableOf({
    << <<"l","U+00B7">>, << <<85,1,1>>, <<0,13,1>>, <<0,7,0>> >>>>,
    << <<"L","U+00B7">>, << <<85,1,4>>, <<0,13,1>>, <<0,7,0>> >>>> })

RECURSIVE elementsOf(_)
\* The collation elements of a string.
elementsOf(s) ==
  IF s = <<>> THEN <<>>
  ELSE IF Len(s) >= 2 /\ SubSeq(s, 1, 2) \in DOMAIN collationContractions
  THEN collationContractions[SubSeq(s, 1, 2)] \o elementsOf(SubSeq(s, 3, Len(s)))
  ELSE collationElements[Head(s)] \o elementsOf(Tail(s))

\* The weights of one level of a sequence of collation elements, those
\* that are 0 left out.
levelKey(elements, level) ==
  LET weights == [k \in 1..Len(elements) |-> elements[k][level]]
  IN SelectSeqBy(weights, {w \in {weights[k] : k \in 1..Len(weights)} : w # 0})

\* The smaller of two numbers.
minOf(m, n) == IF m < n THEN m ELSE n

\* The order of two sequences of weights: by the first weight that differs,
\* a sequence before the sequences it begins.
compareKeys(ka, kb) ==
  LET D == {k \in 1..minOf(Len(ka), Len(kb)) : ka[k] # kb[k]}
      d == CHOOSE k \in D : \A j \in D : k <= j
  IN IF D # {} THEN (IF ka[d] < kb[d] THEN -1 ELSE 1)
     ELSE IF Len(ka) < Len(kb) THEN -1
     ELSE IF Len(ka) > Len(kb) THEN 1
     ELSE 0

\* a.localeCompare(b) < 0, = 0, > 0 as -1, 0, 1: the primary weights of
\* the two strings, then the secondary ones, then the tertiary ones.
localeCompare(a, b) ==
  LET ea == elementsOf(a)
      eb == elementsOf(b)
      primary == compareKeys(levelKey(ea, 1), levelKey(eb, 1))
      secondary == compareKeys(levelKey(ea, 2), levelKey(eb, 2))
      tertiary == compareKeys(levelKey(ea, 3), levelKey(eb, 3))
  IN IF primary # 0 THEN primary
     ELSE IF secondary # 0 THEN secondary
     ELSE tertiary

\* The comparator of fetchFiles' sort: priority, then path.
compareFiles(a, b) ==
  LET priorityA == getFilePriority(a.path)
      priorityB == getFilePriority(b.path)
  IN IF priorityA # priorityB THEN priorityA - priorityB
     ELSE localeCompare(a.path, b.path)

RECURSIVE mergeFiles(_, _)
\* The merge of two sorted runs: the middle file of the first run, before
\* it the merge of what goes before it in both runs (the files of the
\* second run that compare lower), after it the merge of the rest.  Of two
\* files that compare equal, the one of the first run comes first.
mergeFiles(a, b) ==
  IF a = <<>> THEN b
  ELSE IF b = <<>> THEN a
  ELSE LET mid == (Len(a) + 1) \div 2
           lower == Cardinality({j \in 1..Len(b) : compareFiles(b[j], a[mid]) < 0})
       IN mergeFiles(SubSeq(a, 1, mid - 1), SubSeq(b, 1, lower))
            \o <<a[mid]>>
            \o mergeFiles(SubSeq(a, mid + 1, Len(a)), SubSeq(b, lower + 1, Len(b)))

RECURSIVE sortFiles(_)
\* Array.prototype.sort (stable, by merging sorted runs) with compareFiles.
sortFiles(files) ==
  IF Len(files) <= 1 THEN files
  ELSE LET half == Len(files) \div 2
       IN mergeFiles(sortFiles(SubSeq(files, 1, half)),
                     sortFiles(SubSeq(files, half + 1, Len(files))))

\* selectFiles cutting the accepted entries to maxEntries before it sorts
\* them.
selectFiles_sliceFirst(tree) ==
  sortFiles(
    sliceFirst(
      SelectSeqBy(tree,
        {n \in {tree[i] : i \in 1..Len(tree)} :
           n.type = "blob" /\ isRelevantFile(n.path)}),
      maxEntries))

\* fetchFiles: filter, sort and slice of the tree listing.
selectFiles(tree) ==
  sliceFirst(
    sortFiles(SelectSeqBy(tree,
      {n \in {tree[i] : i \in 1..Len(tree)} :
         n.type = "blob" /\ isRelevantFile(n.path)})),
    maxEntries)

\* ------------------------------------------------------------ Batch Planner
\* originals.filter(f => f.priority === p)
filesOfPriority(files, p) ==
  SelectSeqBy(files, {f \in {files[k] : k \in 1..Len(files)} : f.priority = p})

\* fileGroups listing the group main before the group config.
fileGroups_mainFirst(files) ==
  filesOfPriority(files, 2) \o filesOfPriority(files, 1) \o filesOfPriority(files, 3)

\* The three groups of fileGroups, in the order Object.entries lists them
\* (config, main, others), one after the other.
fileGroups(files) ==
  filesOfPriority(files, 1) \o filesOfPriority(files, 2) \o filesOfPriority(files, 3)

RECURSIVE planLoop_atLimit(_, _, _, _)
\* planLoop closing the current batch already when the next file would fill
\* it to sizeLimit exactly.
planLoop_atLimit(closed, currentBatch, currentSize, rest) ==
  IF rest = <<>>
  THEN IF Len(currentBatch) > 0 THEN Append(closed, currentBatch) ELSE closed
  ELSE LET file == Head(rest)
           fileSize == file.content.len
       IN IF currentSize + fileSize >= sizeLimit /\ Len(currentBatch) > 0
          THEN planLoop_atLimit(Append(closed, currentBatch), <<file>>, fileSize,
                                Tail(rest))
          ELSE planLoop_atLimit(closed, Append(currentBatch, file),
                                currentSize + fileSize, Tail(rest))

RECURSIVE planLoop_noEmptyCheck(_, _, _, _)
\* planLoop closing the current batch whenever the limit is exceeded, also
\* when the batch is empty.
planLoop_noEmptyCheck(closed, currentBatch, currentSize, rest) ==
  IF rest = <<>>
  THEN IF Len(currentBatch) > 0 THEN Append(closed, currentBatch) ELSE closed
  ELSE LET file == Head(rest)
           fileSize == file.content.len
       IN IF currentSize + fileSize > sizeLimit
          THEN planLoop_noEmptyCheck(Append(closed, currentBatch), <<file>>,
                                     fileSize, Tail(rest))
          ELSE planLoop_noEmptyCheck(closed, Append(currentBatch, file),
                                     currentSize + fileSize, Tail(rest))

RECURSIVE planLoop(_, _, _, _)
\* The loop body over the grouped files: batches closed so far, the current
\* batch and its size, the files still to place.
planLoop(closed, currentBatch, currentSize, rest) ==
  IF rest = <<>>
  THEN IF Len(currentBatch) > 0 THEN Append(closed, currentBatch) ELSE closed
  ELSE LET file == Head(rest)
           fileSize == file.content.len
       IN IF currentSize + fileSize > sizeLimit /\ Len(currentBatch) > 0
          THEN planLoop(Append(closed, currentBatch), <<file>>, fileSize, Tail(rest))
          ELSE planLoop(closed, Append(currentBatch, file),
                        currentSize + fileSize, Tail(rest))

\* The batches the convert handler builds from the fetched files.
planBatches(files) == planLoop(<<>>, <<>>, 0, fileGroups(files))

\* The earlier revision of the convert handler: const sizeLimit = 40000
sizeLimitReduced == 40000

RECURSIVE planLoopReduced(_, _, _, _)
\* The loop body of the earlier revision over the fetched files, in the
\* order fetchFiles returned them.
planLoopReduced(closed, currentBatch, currentSize, rest) ==
  IF rest = <<>>
  THEN IF Len(currentBatch) > 0 THEN Append(closed, currentBatch) ELSE closed
  ELSE LET file == Head(rest)
           fileSize == file.content.len
       IN IF currentSize + fileSize > sizeLimitReduced /\ Len(currentBatch) > 0
          THEN planLoopReduced(Append(closed, currentBatch), <<file>>, fileSize,
                               Tail(rest))
          ELSE planLoopReduced(closed, Append(currentBatch, file),
                               currentSize + fileSize, Tail(rest))

\* The batches the earlier revision builds from the fetched files.
planBatchesReduced(files) == planLoopReduced(<<>>, <<>>, 0, files)

\* -------------------------------------------------------- Fallback Generator
\* The switch on target.language.toLowerCase().
targetExtension(lang) ==
  CASE lang = <<"p","y","t","h","o","n">> -> <<".","p","y">>
    [] lang = <<"j","a","v","a","s","c","r","i","p","t">> -> <<".","j","s">>
    [] lang = <<"n","o","d","e",".","j","s">> -> <<".","j","s">>
    [] lang = <<"t","y","p","e","s","c","r","i","p","t">> -> <<".","t","s">>
    [] lang = <<"j","a","v","a">> -> <<".","j","a","v","a">>
    [] lang = <<"c","#">> -> <<".","c","s">>
    [] lang = <<"c","s","h","a","r","p">> -> <<".","c","s">>
    [] lang = <<"g","o">> -> <<".","g","o">>
    [] OTHER -> <<".","t","x","t">>

\* fallbackPath cutting the path at its first "." instead of its last.
fallbackPath_firstDot(path, targetExt) == split(path, ".")[1] \o targetExt

\* pathParts.slice(0, -1).join('.') + targetExt
fallbackPath(path, targetExt) ==
  join(dropLast(split(path, ".")), <<".">>) \o targetExt

\* fallbackContent embedding the original content whole.
fallbackContent_wholeContent(file, target) ==
  [t |-> "string",
   stub |-> [marker |-> "FALLBACK CONVERSION - NEEDS MANUAL REVIEW",
             originalFile |-> file.path,
             language |-> target.language,
             framework |-> target.framework,
             excerptLen |-> file.content.len,
             truncated |-> FALSE]]

\* The template literal of fallbackContent: the stub's header fields, the
\* length of the embedded excerpt of the original and whether the
\* truncation marker follows it.
fallbackContent(file, target) ==
  [t |-> "string",
   stub |-> [marker |-> "FALLBACK CONVERSION - NEEDS MANUAL REVIEW",
             originalFile |-> file.path,
             language |-> target.language,
             framework |-> target.framework,
             excerptLen |-> IF file.content.len < excerptLimit
                            THEN file.content.len ELSE excerptLimit,
             truncated |-> file.content.len > excerptLimit]]

\* target.language.toLowerCase() raises a TypeError unless target.language
\* is a string.
fallbackThrows(target) == target.language.t # "string"

\* createFallbackFiles when it returns.
createFallbackFiles(batch, target) ==
  [k \in 1..Len(batch) |->
     [path |-> JSString(fallbackPath(batch[k].path,
                           targetExtension(toLowerCase(target.language.s)))),
      content |-> fallbackContent(batch[k], target),
      originalPath |-> JSString(batch[k].path),
      isFallback |-> [t |-> "boolean", b |-> TRUE]]]

\* --------------------------------------------------------- Conversion Engine
\* The text of an LLM reply is a string.  JSON.parse reads it as a sequence
\* of lexical tokens: the JSON punctuation, strings, numbers and literals.
LBrace == [tok |-> "{"]
RBrace == [tok |-> "}"]
LBracket == [tok |-> "["]
RBracket == [tok |-> "]"]
Colon == [tok |-> ":"]
Comma == [tok |-> ","]
NullTok == [tok |-> "null"]
TrueTok == [tok |-> "true"]
FalseTok == [tok |-> "false"]
NumTok(n) == [tok |-> "number", n |-> n]
StrTok(s) == [tok |-> "string", s |-> s]

\* JSON: the characters of white space, of punctuation, the digits, and
\* the control characters, which no string holds unescaped.
jsonWhitespace == {" ", "U+0009", "U+000A", "U+000D"}
jsonPunctuation == {"{", "}", "[", "]", ":", ","}
Digits == <<"0","1","2","3","4","5","6","7","8","9">>
digitChars == {Digits[k] : k \in 1..10}
HexDigits == <<"0","1","2","3","4","5","6","7","8","9","A","B","C","D","E","F">>
controlChars == {"U+00" \o HexDigits[h + 1] \o HexDigits[l + 1] : h \in 0..1, l \in 0..15}

\* The printable characters of ASCII, from U+0020 to U+007E.
printableChars == <<
  " ", "!", "\"", "#", "$", "%", "&", "'", "(", ")", "*", "+", ",", "-", ".", "/",
  "0", "1", "2", "3", "4", "5", "6", "7", "8", "9", ":", ";", "<", "=", ">", "?",
  "@", "A", "B", "C", "D", "E", "F", "G", "H", "I", "J", "K", "L", "M", "N", "O",
  "P", "Q", "R", "S", "T", "U", "V", "W", "X", "Y", "Z", "[", "\\", "]", "^", "_",
  "U+0060", "a", "b", "c", "d", "e", "f", "g", "h", "i", "j", "k", "l", "m", "n", "o",
  "p", "q", "r", "s", "t", "u", "v", "w", "x", "y", "z", "{", "|", "}", "~" >>

\* The value of a hexadecimal digit, of either case.
hexValue(c) ==
  IF c \in DOMAIN upperCase /\ \E k \in 1..16 : HexDigits[k] = upperCase[c]
  THEN (CHOOSE k \in 1..16 : HexDigits[k] = upperCase[c]) - 1
  ELSE (CHOOSE k \in 1..16 : HexDigits[k] = c) - 1

isHexDigit(c) ==
  \/ \E k \in 1..16 : HexDigits[k] = c
  \/ c \in DOMAIN upperCase /\ \E k \in 1..16 : HexDigits[k] = upperCase[c]

\* The character that the escape \uXXXX of the four digits h stands for.
codeUnitOf(h) ==
  LET v == 4096 * hexValue(h[1]) + 256 * hexValue(h[2]) + 16 * hexValue(h[3])
             + hexValue(h[4])
  IN IF v >= 32 /\ v <= 126 THEN printableChars[v - 31]
     ELSE "U+" \o HexDigits[hexValue(h[1]) + 1] \o HexDigits[hexValue(h[2]) + 1]
               \o HexDigits[hexValue(h[3]) + 1] \o HexDigits[hexValue(h[4]) + 1]

\* The characters that the escapes of one character stand for.
simpleEscapes ==
  tableOf({
    <<"\"", "\"">>, <<"\\", "\\">>, <<"/", "/">>, <<"b", "U+0008">>, <<"f", "U+000C">>,
    <<"n", "U+000A">>, <<"r", "U+000D">>, <<"t", "U+0009">> })

lexFail == [ok |-> FALSE, toks |-> <<>>, s |-> <<>>, next |-> 0]

\* The first position from i on whose character is not in the set, and the
\* position after the text when there is none.
firstOutside(text, i, chars) ==
  LET P == {k \in i..Len(text) : text[k] \notin chars}
  IN IF P = {} THEN Len(text) + 1 ELSE CHOOSE k \in P : \A j \in P : k <= j

RECURSIVE lexString(_, _, _)
\* The string whose characters start at position i, after the opening
\* quote: its value and the position after its closing quote.
lexString(text, i, acc) ==
  IF i > Len(text) THEN lexFail
  ELSE IF text[i] = "\"" THEN [ok |-> TRUE, toks |-> <<>>, s |-> acc, next |-> i + 1]
  ELSE IF text[i] \in controlChars THEN lexFail
  ELSE IF text[i] # "\\" THEN lexString(text, i + 1, Append(acc, text[i]))
  ELSE IF i + 1 > Len(text) THEN lexFail
  ELSE IF text[i + 1] \in DOMAIN simpleEscapes
  THEN lexString(text, i + 2, Append(acc, simpleEscapes[text[i + 1]]))
  ELSE IF /\ text[i + 1] = "u"
          /\ i + 5 <= Len(text)
          /\ \A k \in 2..5 : isHexDigit(text[i + k])
  THEN lexString(text, i + 6, Append(acc, codeUnitOf(SubSeq(text, i + 2, i + 5))))
  ELSE lexFail

RECURSIVE digitsValue(_)
\* The number that a run of digits writes.
digitsValue(ds) ==
  IF ds = <<>> THEN 0
  ELSE 10 * digitsValue(SubSeq(ds, 1, Len(ds) - 1))
         + (CHOOSE k \in 1..10 : Digits[k] = ds[Len(ds)]) - 1

\* A run of digits without the zeros at its start, and without those at
\* its end.
dropLeadingZeros(ds) == SubSeq(ds, firstOutside(ds, 1, {"0"}), Len(ds))

dropTrailingZeros(ds) ==
  LET P == {k \in 1..Len(ds) : ds[k] # "0"}
  IN IF P = {} THEN <<>> ELSE SubSeq(ds, 1, CHOOSE k \in P : \A j \in P : j <= k)

\* A string of the runtime, and so the text of a reply, has fewer than
\* 2^30 characters.
maxTextLength == 1073741824

\* An exponent of this magnitude decides the number whatever its digits
\* are: the first digit that is not 0 stands fewer than maxTextLength
\* places from the point.
exponentLimit == maxTextLength + 400

\* The exponent that a run of digits writes; exponentLimit for every
\* exponent from exponentLimit on.
exponentValue(ds) ==
  LET e == dropLeadingZeros(ds)
      high == digitsValue(SubSeq(e, 1, 9))
      all == 10 * high + digitsValue(SubSeq(e, 10, 10))
  IN IF Len(e) < 10 THEN digitsValue(e)
     ELSE IF Len(e) > 10 \/ high > exponentLimit \div 10 THEN exponentLimit
     ELSE IF all > exponentLimit THEN exponentLimit
     ELSE all

\* The digits of 2^-1075 = 2.47...e-324, half the least positive double: a
\* number of at most this magnitude is read as 0.
underflowDigits == <<
  2,4,7,0,3,2,8,2,2,9,2,0,6,2,3,2,7,2,0,8,8,2,8,4,3,9,6,4,3,4,1,1,0,6,8,6,1,8,2,5,2,9,9,0,1,3,0,
  7,1,6,2,3,8,2,2,1,2,7,9,2,8,4,1,2,5,0,3,3,7,7,5,3,6,3,5,1,0,4,3,7,5,9,3,2,6,4,9,9,1,8,1,8,0,8,
  1,7,9,9,6,1,8,9,8,9,8,2,8,2,3,4,7,7,2,2,8,5,8,8,6,5,4,6,3,3,2,8,3,5,5,1,7,7,9,6,9,8,9,8,1,9,9,
  3,8,7,3,9,8,0,0,5,3,9,0,9,3,9,0,6,3,1,5,0,3,5,6,5,9,5,1,5,5,7,0,2,2,6,3,9,2,2,9,0,8,5,8,3,9,2,
  4,4,9,1,0,5,1,8,4,4,3,5,9,3,1,8,0,2,8,4,9,9,3,6,5,3,6,1,5,2,5,0,0,3,1,9,3,7,0,4,5,7,6,7,8,2,4,
  9,2,1,9,3,6,5,6,2,3,6,6,9,8,6,3,6,5,8,4,8,0,7,5,7,0,0,1,5,8,5,7,6,9,2,6,9,9,0,3,7,0,6,3,1,1,9,
  2,8,2,7,9,5,5,8,5,5,1,3,3,2,9,2,7,8,3,4,3,3,8,4,0,9,3,5,1,9,7,8,0,1,5,5,3,1,2,4,6,5,9,7,2,6,3,
  5,7,9,5,7,4,6,2,2,7,6,6,4,6,5,2,7,2,8,2,7,2,2,0,0,5,6,3,7,4,0,0,6,4,8,5,4,9,9,9,7,7,0,9,6,5,9,
  9,4,7,0,4,5,4,0,2,0,8,2,8,1,6,6,2,2,6,2,3,7,8,5,7,3,9,3,4,5,0,7,3,6,3,3,9,0,0,7,9,6,7,7,6,1,9,
  3,0,5,7,7,5,0,6,7,4,0,1,7,6,3,2,4,6,7,3,6,0,0,9,6,8,9,5,1,3,4,0,5,3,5,5,3,7,4,5,8,5,1,6,6,6,1,
  1,3,4,2,2,3,7,6,6,6,7,8,6,0,4,1,6,2,1,5,9,6,8,0,4,6,1,9,1,4,4,6,7,2,9,1,8,4,0,3,0,0,5,3,0,0,5,
  7,5,3,0,8,4,9,0,4,8,7,6,5,3,9,1,7,1,1,3,8,6,5,9,1,6,4,6,2,3,9,5,2,4,9,1,2,6,2,3,6,5,3,8,8,1,8,
  7,9,6,3,6,2,3,9,3,7,3,2,8,0,4,2,3,8,9,1,0,1,8,6,7,2,3,4,8,4,9,7,6,6,8,2,3,5,0,8,9,8,6,3,3,8,8,
  5,8,7,9,2,5,6,2,8,3,0,2,7,5,5,9,9,5,6,5,7,5,2,4,4,5,5,5,0,7,2,5,5,1,8,9,3,1,3,6,9,0,8,3,6,2,5,
  4,7,7,9,1,8,6,9,4,8,6,6,7,9,9,4,9,6,8,3,2,4,0,4,9,7,0,5,8,2,1,0,2,8,5,1,3,1,8,5,4,5,1,3,9,6,2,
  1,3,8,3,7,7,2,2,8,2,6,1,4,5,4,3,7,6,9,3,4,1,2,5,3,2,0,9,8,5,9,1,3,2,7,6,6,7,2,3,6,3,2,8,1,2,5 >>

\* The digits of 2^1024 - 2^970 = 1.79...e308, half a step above the
\* greatest double: a number of at least this magnitude is read as
\* Infinity.
overflowDigits == <<
  1,7,9,7,6,9,3,1,3,4,8,6,2,3,1,5,8,0,7,9,3,7,2,8,9,7,1,4,0,5,3,0,3,4,1,5,0,7,9,9,3,4,1,3,2,7,1,
  0,0,3,7,8,2,6,9,3,6,1,7,3,7,7,8,9,8,0,4,4,4,9,6,8,2,9,2,7,6,4,7,5,0,9,4,6,6,4,9,0,1,7,9,7,7,5,
  8,7,2,0,7,0,9,6,3,3,0,2,8,6,4,1,6,6,9,2,8,8,7,9,1,0,9,4,6,5,5,5,5,4,7,8,5,1,9,4,0,4,0,2,6,3,0,
  6,5,7,4,8,8,6,7,1,5,0,5,8,2,0,6,8,1,9,0,8,9,0,2,0,0,0,7,0,8,3,8,3,6,7,6,2,7,3,8,5,4,8,4,5,8,1,
  7,7,1,1,5,3,1,7,6,4,4,7,5,7,3,0,2,7,0,0,6,9,8,5,5,5,7,1,3,6,6,9,5,9,6,2,2,8,4,2,9,1,4,8,1,9,8,
  6,0,8,3,4,9,3,6,4,7,5,2,9,2,7,1,9,0,7,4,1,6,8,4,4,4,3,6,5,5,1,0,7,0,4,3,4,2,7,1,1,5,5,9,6,9,9,
  5,0,8,0,9,3,0,4,2,8,8,0,1,7,7,9,0,4,1,7,4,4,9,7,7,9,2 >>

\* Whether the decimal fraction 0.a is at most 0.b, for two sequences of
\* digit values.
fractionAtMost(a, b) ==
  LET digit(ds, k) == IF k <= Len(ds) THEN ds[k] ELSE 0
      D == {k \in 1..(Len(a) + Len(b)) : digit(a, k) # digit(b, k)}
      first(k) == digit(a, k) < digit(b, k)
  IN D = {} \/ first(CHOOSE k \in D : \A j \in D : k <= j)

\* The token of the number that JSON.parse reads from the sign, the digits
\* before and after the point and the exponent.  With d the digits
\* between the first and the last that are not 0, p the place of the first
\* of them before the point and q = p + exp its decimal exponent, the
\* number is sign * d[1].d[2]... * 10^q.  It is 0 when all digits are 0 and when it is too small for a
\* double, Infinity when it is too large.  An integer below 10^9 has its
\* value in n; any other number has its sign in n and d and q in digits
\* and exponent (the rounding of d to the 53 bits of a double is left
\* out).
numberToken(sign, int, frac, exp) ==
  LET lead == firstOutside(int \o frac, 1, {"0"}) - 1
      d == dropTrailingZeros(dropLeadingZeros(int \o frac))
      p == Len(int) - lead - 1
      q == p + exp
      values == [k \in 1..Len(d) |-> digitsValue(<<d[k]>>)]
  IN IF d = <<>> THEN NumTok(0)
     ELSE IF exp < -324 - p \/ (exp = -324 - p /\ fractionAtMost(values, underflowDigits))
     THEN NumTok(0)
     ELSE IF exp > 308 - p \/ (exp = 308 - p /\ fractionAtMost(overflowDigits, values))
     THEN [tok |-> "number", n |-> sign, infinite |-> TRUE]
     ELSE IF Len(d) - 1 <= q /\ q <= 8
     THEN NumTok(sign * digitsValue(d \o [k \in 1..(q - Len(d) + 1) |-> "0"]))
     ELSE [tok |-> "number", n |-> sign, digits |-> d, exponent |-> q]

\* The number whose characters start at position i: its token and the
\* position after it.
lexNumber(text, i) ==
  LET intStart == IF text[i] = "-" THEN i + 1 ELSE i
      intEnd == firstOutside(text, intStart, digitChars)
      hasFrac == intEnd <= Len(text) /\ text[intEnd] = "."
      fracEnd == IF hasFrac THEN firstOutside(text, intEnd + 1, digitChars) ELSE intEnd
      hasExp == fracEnd <= Len(text) /\ text[fracEnd] \in {"e", "E"}
      expStart == IF hasExp /\ fracEnd + 1 <= Len(text) /\ text[fracEnd + 1] \in {"+", "-"}
                  THEN fracEnd + 2 ELSE fracEnd + 1
      expEnd == IF hasExp THEN firstOutside(text, expStart, digitChars) ELSE fracEnd
      expSign == IF hasExp /\ text[expStart - 1] = "-" THEN -1 ELSE 1
  IN IF intEnd = intStart THEN lexFail
     ELSE IF text[intStart] = "0" /\ intEnd > intStart + 1 THEN lexFail
     ELSE IF hasFrac /\ fracEnd = intEnd + 1 THEN lexFail
     ELSE IF hasExp /\ expEnd = expStart THEN lexFail
     ELSE [ok |-> TRUE, s |-> <<>>, next |-> expEnd,
           toks |-> <<numberToken(IF text[i] = "-" THEN -1 ELSE 1,
                                  SubSeq(text, intStart, intEnd - 1),
                                  SubSeq(text, intEnd + 1, fracEnd - 1),
                                  IF hasExp
                                  THEN expSign * exponentValue(SubSeq(text, expStart, expEnd - 1))
                                  ELSE 0)>>]

RECURSIVE lexFrom(_, _, _)
\* The tokens of the text from position i on, after the tokens acc.
lexFrom(text, i, acc) ==
  LET p == firstOutside(text, i, jsonWhitespace)
      str == lexString(text, p + 1, <<>>)
      num == lexNumber(text, p)
  IN IF p > Len(text) THEN [ok |-> TRUE, toks |-> acc, s |-> <<>>, next |-> p]
     ELSE IF text[p] \in jsonPunctuation
     THEN lexFrom(text, p + 1, Append(acc, [tok |-> text[p]]))
     ELSE IF text[p] = "\""
     THEN (IF str.ok THEN lexFrom(text, str.next, Append(acc, StrTok(str.s))) ELSE lexFail)
     ELSE IF text[p] = "-" \/ text[p] \in digitChars
     THEN (IF num.ok THEN lexFrom(text, num.next, acc \o num.toks) ELSE lexFail)
     ELSE IF occursAt(text, <<"n","u","l","l">>, p)
     THEN lexFrom(text, p + 4, Append(acc, NullTok))
     ELSE IF occursAt(text, <<"t","r","u","e">>, p)
     THEN lexFrom(text, p + 4, Append(acc, TrueTok))
     ELSE IF occursAt(text, <<"f","a","l","s","e">>, p)
     THEN lexFrom(text, p + 5, Append(acc, FalseTok))
     ELSE lexFail

JSNull == [t |-> "null"]
parseFail == [ok |-> FALSE, v |-> JSNull, next |-> 0]

RECURSIVE parseValue(_, _), parseElements(_, _, _), parseMembers(_, _, _)

\* JSON value starting at token i: whether one parses, the value, and the
\* position after it.
parseValue(toks, i) ==
  IF i > Len(toks) THEN parseFail
  ELSE LET tk == toks[i]
       IN CASE tk.tok = "null" -> [ok |-> TRUE, v |-> JSNull, next |-> i + 1]
            [] tk.tok = "true" ->
                 [ok |-> TRUE, v |-> [t |-> "boolean", b |-> TRUE], next |-> i + 1]
            [] tk.tok = "false" ->
                 [ok |-> TRUE, v |-> [t |-> "boolean", b |-> FALSE], next |-> i + 1]
            [] tk.tok = "number" ->
                 [ok |-> TRUE, next |-> i + 1,
                  v |-> [f \in (DOMAIN tk \ {"tok"}) \cup {"t"} |->
                           IF f = "t" THEN "number" ELSE tk[f]]]
            [] tk.tok = "string" -> [ok |-> TRUE, v |-> JSString(tk.s), next |-> i + 1]
            [] tk.tok = "[" ->
                 IF i + 1 <= Len(toks) /\ toks[i + 1] = RBracket
                 THEN [ok |-> TRUE, v |-> [t |-> "array", items |-> <<>>], next |-> i + 2]
                 ELSE parseElements(toks, i + 1, <<>>)
            [] tk.tok = "{" ->
                 IF i + 1 <= Len(toks) /\ toks[i + 1] = RBrace
                 THEN [ok |-> TRUE, v |-> [t |-> "object", members |-> <<>>], next |-> i + 2]
                 ELSE parseMembers(toks, i + 1, <<>>)
            [] OTHER -> parseFail

\* The elements of an array after "[" or ",", up to the closing "]".
parseElements(toks, i, acc) ==
  LET e == parseValue(toks, i)
  IN IF ~e.ok \/ e.next > Len(toks) THEN parseFail
     ELSE IF toks[e.next] = RBracket
     THEN [ok |-> TRUE, v |-> [t |-> "array", items |-> Append(acc, e.v)],
           next |-> e.next + 1]
     ELSE IF toks[e.next] = Comma
     THEN parseElements(toks, e.next + 1, Append(acc, e.v))
     ELSE parseFail

\* The members of an object after "{" or ",", up to the closing "}".
parseMembers(toks, i, acc) ==
  IF i + 1 > Len(toks) \/ toks[i].tok # "string" \/ toks[i + 1] # Colon
  THEN parseFail
  ELSE LET e == parseValue(toks, i + 2)
           m == [key |-> toks[i].s, value |-> e.v]
       IN IF ~e.ok \/ e.next > Len(toks) THEN parseFail
          ELSE IF toks[e.next] = RBrace
          THEN [ok |-> TRUE, v |-> [t |-> "object", members |-> Append(acc, m)],
                next |-> e.next + 1]
          ELSE IF toks[e.next] = Comma
          THEN parseMembers(toks, e.next + 1, Append(acc, m))
          ELSE parseFail

\* JSON.parse: the whole text is one JSON value, or it throws.
JSONparse(text) ==
  LET parsed(l) ==
        LET whole(r) ==
              IF l.ok /\ r.ok /\ r.next = Len(l.toks) + 1 THEN [ok |-> TRUE, v |-> r.v]
              ELSE [ok |-> FALSE, v |-> JSNull]
        IN whole(parseValue(l.toks, 1))
  IN parsed(lexFrom(text, 1, <<>>))

\* aiResponse.match(/\{[\s\S]*\}/): the greedy match runs from the first
\* "{" of the text to the last "}" after it, whatever the characters stand
\* in; <<>> stands for no match.
jsonMatch(text) ==
  LET opens == {k \in 1..Len(text) : text[k] = "{"}
      first == CHOOSE k \in opens : \A j \in opens : k <= j
      closes == {k \in 1..Len(text) : text[k] = "}" /\ k > first}
      last == CHOOSE k \in closes : \A j \in closes : j <= k
  IN IF opens = {} THEN <<>>
     ELSE IF closes = {} THEN <<>>
     ELSE SubSeq(text, first, last)

\* obj[key] of a parsed value: the last member of that name of an object,
\* and undefined otherwise (no property of the replies' other values is read).
getProperty(v, key) ==
  IF v.t # "object" THEN JSUndefined
  ELSE LET hits == {k \in 1..Len(v.members) : v.members[k].key = key}
       IN IF hits = {} THEN JSUndefined
          ELSE v.members[CHOOSE k \in hits : \A j \in hits : j <= k].value

\* isValidEntry without the test of content.
isValidEntry_pathOnly(file) ==
  /\ truthy(file)
  /\ getProperty(file, <<"p","a","t","h">>).t = "string"

\* The filter of validFiles: file is truthy, path and content are strings.
isValidEntry(file) ==
  /\ truthy(file)
  /\ getProperty(file, <<"p","a","t","h">>).t = "string"
  /\ getProperty(file, <<"c","o","n","t","e","n","t">>).t = "string"

\* The fields of a returned entry that the handler and its callers read.
entryFile(file) ==
  [path |-> getProperty(file, <<"p","a","t","h">>),
   content |-> getProperty(file, <<"c","o","n","t","e","n","t">>),
   originalPath |-> getProperty(file, <<"o","r","i","g","i","n","a","l","P","a","t","h">>),
   isFallback |-> getProperty(file, <<"i","s","F","a","l","l","b","a","c","k">>)]

RECURSIVE validFiles(_)
\* parsed.files.filter(...)
validFiles(items) ==
  IF items = <<>> THEN <<>>
  ELSE (IF isValidEntry(Head(items)) THEN <<entryFile(Head(items))>> ELSE <<>>)
         \o validFiles(Tail(items))

raise(message) == [ok |-> FALSE, files |-> <<>>, error |-> message]

\* The parse of aiResponse with its recovery pass.
parseReply(aiResponse) ==
  LET second(again) ==
        IF again.ok THEN [ok |-> TRUE, v |-> again.v, error |-> ""]
        ELSE [ok |-> FALSE, v |-> JSNull,
              error |-> "Failed to parse AI response as JSON"]
      recovered(m) ==
        IF m # <<>> THEN second(JSONparse(m))
        ELSE [ok |-> FALSE, v |-> JSNull,
              error |-> "AI response does not contain valid JSON"]
      first(direct) ==
        IF direct.ok THEN [ok |-> TRUE, v |-> direct.v, error |-> ""]
        ELSE recovered(jsonMatch(aiResponse))
  IN first(JSONparse(aiResponse))

\* convertReply without the check that a valid entry remains.
convertReply_acceptsEmpty(batch, llm) ==
  IF llm.kind = "network_error" THEN raise("request to openrouter.ai failed")
  ELSE IF llm.kind = "http_error" THEN raise("OpenRouter API error")
  ELSE LET withFiles(p, files) ==
             IF ~p.ok THEN raise(p.error)
             ELSE IF ~truthy(p.v) \/ files.t # "array"
             THEN raise("AI response missing files array")
             ELSE [ok |-> TRUE, files |-> validFiles(files.items), error |-> ""]
           parsed(p) == withFiles(p, getProperty(p.v, <<"f","i","l","e","s">>))
       IN parsed(parseReply(llm.reply))

\* convertBatch after the credentials check, for the outcome llm of the
\* request to the LLM: the request fails, the reply is an HTTP error, or
\* the reply carries the text llm.reply.
convertReply(batch, llm) ==
  IF llm.kind = "network_error" THEN raise("request to openrouter.ai failed")
  ELSE IF llm.kind = "http_error" THEN raise("OpenRouter API error")
  ELSE LET withFiles(p, files) ==
             IF ~p.ok THEN raise(p.error)
             ELSE IF ~truthy(p.v) \/ files.t # "array"
             THEN raise("AI response missing files array")
             ELSE IF Len(validFiles(files.items)) = 0
             THEN raise("No valid files in AI response")
             ELSE [ok |-> TRUE, files |-> validFiles(files.items), error |-> ""]
           parsed(p) == withFiles(p, getProperty(p.v, <<"f","i","l","e","s">>))
       IN parsed(parseReply(llm.reply))

\* The check of OPENROUTER_KEY that opens convertBatch.
missingKeyError == raise("Missing OPENROUTER_API_KEY environment variable")

\* ------------------------------------------------------------------ inputs
\* The entries of the repositories' trees, in the order of a tree listing.
treeListing == <<
  [path |-> <<"R","E","A","D","M","E",".","m","d">>, type |-> "blob"],
  [path |-> <<"d","i","s","t","/","o","u","t",".","j","s">>, type |-> "blob"],
  [path |-> <<"p","a","c","k","a","g","e",".","j","s","o","n">>, type |-> "blob"],
  [path |-> <<"s","r","c">>, type |-> "tree"],
  [path |-> <<"s","r","c","/","a","p","p",".","t","s">>, type |-> "blob"] >>

\* The tree listings of at most MaxTree entries.
Trees ==
  {SelectSeqBy(treeListing, S) :
     S \in {T \in SUBSET {treeListing[k] : k \in 1..Len(treeListing)} :
              Cardinality(T) <= MaxTree}}

\* Lengths of the decoded contents of the files: small, mid-size, above
\* sizeLimit, above sizeCeiling.
ContentLengths == {30000, 50000, 90000, 100001}

\* The target of a request: absent, or an object whose fields are strings,
\* or an object whose language is a number.
targetOf(language) ==
  [t |-> "object", language |-> language,
   framework |-> JSString(<<"F","l","a","s","k">>), database |-> JSString(<<"S","Q","L","i","t","e">>)]

Targets == {JSUndefined, targetOf(JSString(<<"P","y","t","h","o","n">>)), targetOf(JSNumber(42))}

\* A request body: whether token, owner, repo and branch are all there,
\* and the target.
Requests == [hasRequired : BOOLEAN, target : Targets]

\* The texts of the replies of the LLM are written as their tokens, with
\* words of prose that are no JSON between them.
Prose == [tok |-> "prose"]

\* A number as the text of the reply writes it.
Numeral(s) == [tok |-> "numeral", s |-> s]

RECURSIVE digitsOf(_)
\* The digits of a natural number.
digitsOf(n) ==
  IF n < 10 THEN <<Digits[n + 1]>> ELSE digitsOf(n \div 10) \o <<Digits[(n % 10) + 1]>>

RECURSIVE escaped(_)
\* The characters of a string as a JSON text writes them between quotes.
escaped(s) ==
  IF s = <<>> THEN <<>>
  ELSE (IF Head(s) \in {"\"", "\\"} THEN <<"\\", Head(s)>> ELSE <<Head(s)>>)
         \o escaped(Tail(s))

\* The characters of one token.
tokenText(tk) ==
  CASE tk.tok = "string" -> <<"\"">> \o escaped(tk.s) \o <<"\"">>
    [] tk.tok = "number" ->
         (IF tk.n < 0 THEN <<"-">> \o digitsOf(0 - tk.n) ELSE digitsOf(tk.n))
    [] tk.tok = "null" -> <<"n","u","l","l">>
    [] tk.tok = "true" -> <<"t","r","u","e">>
    [] tk.tok = "false" -> <<"f","a","l","s","e">>
    [] tk.tok = "prose" -> <<"S","u","r","e">>
    [] tk.tok = "numeral" -> tk.s
    [] OTHER -> <<tk.tok>>

RECURSIVE textOf(_)
\* The text of a sequence of tokens, one space between two tokens.
textOf(toks) ==
  IF toks = <<>> THEN <<>>
  ELSE IF Len(toks) = 1 THEN tokenText(toks[1])
  ELSE tokenText(toks[1]) \o <<" ">> \o textOf(Tail(toks))

\* Replies of the LLM.
goodEntry == <<LBrace, StrTok(<<"p","a","t","h">>), Colon, StrTok(<<"a","p","p",".","p","y">>), Comma,
               StrTok(<<"c","o","n","t","e","n","t">>), Colon, StrTok(<<"p","r","i","n","t">>), Comma,
               StrTok(<<"o","r","i","g","i","n","a","l","P","a","t","h">>), Colon, StrTok(<<"s","r","c","/","a","p","p",".","t","s">>), RBrace>>
bareEntry == <<LBrace, StrTok(<<"p","a","t","h">>), Colon, StrTok(<<"r","e","a","d","m","e",".","t","x","t">>), Comma,
               StrTok(<<"c","o","n","t","e","n","t">>), Colon, StrTok(<<"t","e","x","t">>), RBrace>>
badEntry == <<LBrace, StrTok(<<"p","a","t","h">>), Colon, NumTok(1), RBrace>>
\* An entry on which the reply sets isFallback itself.
flaggedEntry == <<LBrace, StrTok(<<"p","a","t","h">>), Colon, StrTok(<<"m","a","i","n",".","p","y">>), Comma,
                  StrTok(<<"c","o","n","t","e","n","t">>), Colon, StrTok(<<"p","a","s","s">>), Comma,
                  StrTok(<<"o","r","i","g","i","n","a","l","P","a","t","h">>), Colon, StrTok(<<"p","a","c","k","a","g","e",".","j","s","o","n">>), Comma,
                  StrTok(<<"i","s","F","a","l","l","b","a","c","k">>), Colon, TrueTok, RBrace>>
filesReply(entries) ==
  <<LBrace, StrTok(<<"f","i","l","e","s">>), Colon, LBracket>> \o entries \o <<RBracket, RBrace>>

replyGood == textOf(filesReply(goodEntry))
replyWrapped == textOf(<<Prose>> \o filesReply(bareEntry \o <<Comma>> \o badEntry) \o <<Prose>>)
replyNoFiles == textOf(<<LBrace, StrTok(<<"r","e","s","u","l","t">>), Colon, NullTok, RBrace>>)
replyNoValid == textOf(filesReply(badEntry))
replyBroken == textOf(<<Prose, LBrace, Prose, RBrace>>)
replyProse == textOf(<<Prose, Prose>>)
replyFlagged == textOf(filesReply(flaggedEntry))

Replies == {replyGood, replyWrapped, replyNoFiles, replyNoValid, replyBroken, replyProse,
            replyFlagged}

\* Outcomes of the request to the LLM.
LLMOutcomes ==
  {[kind |-> "network_error"], [kind |-> "http_error"]}
    \cup {[kind |-> "ok", reply |-> r] : r \in Replies}

\* ------------------------------------------------------------------- state
VARIABLES
  OPENROUTER_KEY,   \* whether process.env.OPENROUTER_API_KEY is set
  body,             \* req.body
  tree,             \* the tree listing of the branch
  pc,               \* where the handler is
  filesToProcess,   \* fetchFiles: the selected entries
  windowStart,      \* fetchFiles: index of the first entry of the window
  slots,            \* fetchFiles: the promises of the window
  results,          \* fetchFiles: results
  fetchLog,         \* how each content request that is settled ended
  overtaken,        \* a content request settled before an earlier one of its window
  originals,        \* handler: the fetched files
  batches,          \* handler: batches
  i,                \* handler: index of the current batch, from 1
  converted,        \* handler: converted
  failedFiles,      \* handler: failedFiles
  batchResults,     \* handler: batchResults
  llmLog,           \* the batches for which a request was sent to the LLM
  engineLog,        \* what each call of convertBatch ended with, in call order
  inFlight,         \* the batches whose request to the LLM is outstanding
  response,         \* what was written to res
  resWrites,        \* the calls of res.json for the request, in call order,
                    \* each with whether it sent its response
  finished,         \* the response was handed to the socket to its end and
                    \* is detached from it
  requestComplete   \* IncomingMessage.complete: the body of the request was
                    \* received to its end

vars == <<OPENROUTER_KEY, body, tree, pc, filesToProcess, windowStart, slots,
          results, fetchLog, overtaken, originals, batches, i, converted,
          failedFiles, batchResults, llmLog, engineLog, inFlight, response,
          resWrites, finished, requestComplete>>

inputVars == <<OPENROUTER_KEY, body, tree, requestComplete>>
fetchHistory == <<fetchLog, overtaken>>
fetchVars == <<filesToProcess, windowStart, slots, results, fetchHistory>>
batchVars == <<batches, i, converted, failedFiles, batchResults>>
llmVars == <<llmLog, engineLog, inFlight>>
resVars == <<response, resWrites, finished>>

\* express.json and express.urlencoded (index.js lines 63-72) stand before
\* the timeout middleware.  A body of their content type they read to its
\* end before the handler is entered, so the request is complete; any other
\* request they pass on unread with req.body = {}, which has none of the
\* required fields, and its body may or may not arrive to its end.
completions(b) == IF b.hasRequired THEN {TRUE} ELSE BOOLEAN

\* res.headersSent
headersSent == resWrites # <<>>

\* A call of res.json by a caller, and whether it sent its response.
call(by, sent) == [by |-> by, sent |-> sent]

noResponse == [status |-> 0]
pending == [state |-> "pending"]

\* The state of the handler before it runs, for given inputs.
startState ==
  /\ pc = "received"
  /\ filesToProcess = <<>>
  /\ windowStart = 1
  /\ slots = <<>>
  /\ results = <<>>
  /\ fetchLog = {}
  /\ overtaken = FALSE
  /\ originals = <<>>
  /\ batches = <<>>
  /\ i = 1
  /\ converted = <<>>
  /\ failedFiles = <<>>
  /\ batchResults = <<>>
  /\ llmLog = <<>>
  /\ engineLog = <<>>
  /\ inFlight = {}
  /\ response = noResponse
  /\ resWrites = <<>>
  /\ finished = FALSE

Init ==
  /\ OPENROUTER_KEY \in BOOLEAN
  /\ body \in Requests
  /\ requestComplete \in completions(body)
  /\ tree \in Trees
  /\ startState

\* ----------------------------------------------------------------- responses
errorResponse(status, message) == [status |-> status, error |-> message]

\* The handler's catch calls res.status(500).json(r) and returns; when a
\* response was written before, res.json throws ERR_HTTP_HEADERS_SENT out
\* of the catch, nothing is sent and the handler's promise is rejected.
respondInCatch(r) ==
  IF ~headersSent
  THEN /\ response' = r
       /\ pc' = "done"
       /\ resWrites' = <<call("handlerCatch", TRUE)>>
       /\ finished' = finished
  ELSE /\ response' = response
       /\ pc' = "rejected"
       /\ resWrites' = Append(resWrites, call("handlerCatch", FALSE))
       /\ finished' = finished

\* As respond, for a res.json that sends its response whatever was sent
\* before.
respond_sendsAgain(r) ==
  /\ response' = r
  /\ pc' = "done"
  /\ resWrites' = Append(resWrites, call("handler", TRUE))
  /\ finished' = finished

\* The handler's try calls res.json(r) and returns; when a response was
\* written before, res.json throws ERR_HTTP_HEADERS_SENT, the catch calls
\* res.status(500).json, which throws again, nothing is sent and the
\* handler's promise is rejected.
respond(r) ==
  IF ~headersSent
  THEN /\ response' = r
       /\ pc' = "done"
       /\ resWrites' = <<call("handler", TRUE)>>
       /\ finished' = finished
  ELSE /\ response' = response
       /\ pc' = "rejected"
       /\ resWrites' = resWrites \o <<call("handler", FALSE), call("handlerCatch", FALSE)>>
       /\ finished' = finished

\* res.json({ files: [], message: "No relevant files found in repository" })
emptyResponse ==
  [status |-> 200, files |-> <<>>,
   message |-> "No relevant files found in repository"]

\* converted.filter(f => f.isFallback)
fallbackFilesOf(files) ==
  SelectSeqBy(files, {f \in {files[k] : k \in 1..Len(files)} : truthy(f.isFallback)})

\* converted.filter(f => !f.isFallback)
nonFallbackFilesOf(files) ==
  SelectSeqBy(files, {f \in {files[k] : k \in 1..Len(files)} : ~truthy(f.isFallback)})

\* The summary of the response.
summaryOf(orig, conv, outcomes, target) ==
  [totalOriginalFiles |-> Len(orig),
   totalConvertedFiles |-> Len(conv),
   successfullyConverted |-> Len(nonFallbackFilesOf(conv)),
   fallbackFiles |-> Len(fallbackFilesOf(conv)),
   batchResults |-> outcomes,
   target |-> target]

\* The warnings of the response.
warningsOf(conv, fallbackBatches) ==
  [fallbackBatches |-> fallbackBatches,
   fallbackFiles |-> [k \in 1..Len(fallbackFilesOf(conv)) |->
                        fallbackFilesOf(conv)[k].originalPath]]

\* The response of a run whose batches were all processed.
buildResponse(orig, conv, outcomes, target) ==
  LET fallbackBatches ==
        Cardinality({k \in 1..Len(outcomes) : outcomes[k].status = "fallback"})
  IN IF fallbackBatches > 0
     THEN [status |-> 200, files |-> conv,
           summary |-> summaryOf(orig, conv, outcomes, target),
           warnings |-> warningsOf(conv, fallbackBatches)]
     ELSE [status |-> 200, files |-> conv,
           summary |-> summaryOf(orig, conv, outcomes, target)]

\* ------------------------------------------------------------------- actions
\* The handler up to its call of fetchFiles: the validation of the body.
Receive ==
  /\ pc = "received"
  /\ IF ~body.hasRequired
     THEN respond(errorResponse(400,
                 "Missing required fields: token, owner, repo, branch"))
     ELSE IF \/ ~truthy(body.target)
             \/ ~truthy(body.target.language)
             \/ ~truthy(body.target.framework)
             \/ ~truthy(body.target.database)
     THEN respond(errorResponse(400,
                 "Missing target specification (language, framework, database required)"))
     ELSE /\ pc' = "listing"
          /\ UNCHANGED resVars
  /\ UNCHANGED <<inputVars, fetchVars, originals, batchVars, llmVars>>

\* The window of content requests that starts at entry start.
windowOf(files, start) ==
  [k \in 1..(IF Len(files) - start + 1 < batchSize
             THEN Len(files) - start + 1 ELSE batchSize) |-> pending]

\* afterFetch without the short cut: the handler plans no batch, runs no
\* conversion and answers with the summary of an empty run.
afterFetch_noShortCut(fetched) ==
  /\ originals' = fetched
  /\ IF Len(fetched) = 0
     THEN /\ respond(buildResponse(fetched, <<>>, <<>>, body.target))
          /\ UNCHANGED batchVars
     ELSE /\ UNCHANGED resVars
          /\ pc' = "converting"
          /\ batches' = planBatches(fetched)
          /\ i' = 1
          /\ UNCHANGED <<converted, failedFiles, batchResults>>

\* The handler from the return of fetchFiles to its first call of
\* convertBatch: the short cut on no file, and the planning of the batches.
afterFetch(fetched) ==
  /\ originals' = fetched
  /\ IF Len(fetched) = 0
     THEN /\ respond(emptyResponse)
          /\ UNCHANGED batchVars
     ELSE /\ UNCHANGED resVars
          /\ pc' = "converting"
          /\ batches' = planBatches(fetched)
          /\ i' = 1
          /\ UNCHANGED <<converted, failedFiles, batchResults>>

\* The messages of the errors that fetchFiles raises before it selects the
\* entries: a request (for the branch or the tree) is rejected, or answered
\* with an HTTP error, or the reply to the branch request names no commit.
\* The requests of the model name the branch main.
ListingErrors == {"fetch failed",
                  "GitHub API error 401: Bad credentials",
                  "GitHub API error 404: Not Found",
                  "Could not find SHA for branch main"}

\* fetchFiles: the listing of the branch or of the tree fails, and the
\* handler's catch answers 500 with the message of the error.
ListingFails ==
  /\ pc = "listing"
  /\ \E message \in ListingErrors : respondInCatch(errorResponse(500, message))
  /\ UNCHANGED <<inputVars, fetchVars, originals, batchVars, llmVars>>

\* fetchFiles: the tree arrives; the entries are selected and the first
\* window of content requests is sent.
ListingArrives ==
  /\ pc = "listing"
  /\ filesToProcess' = selectFiles(tree)
  /\ IF Len(filesToProcess') = 0
     THEN /\ afterFetch(<<>>)
          /\ UNCHANGED <<windowStart, slots, results>>
     ELSE /\ pc' = "fetching"
          /\ slots' = windowOf(filesToProcess', 1)
          /\ UNCHANGED <<windowStart, results, originals, batchVars, resVars>>
  /\ UNCHANGED <<inputVars, fetchHistory, llmVars>>

\* The history of the content requests: request k of the window settles
\* with the outcome ("error", or "content" of len characters once decoded).
settles(k, outcome, len) ==
  /\ fetchLog' = fetchLog \cup
       {[entry |-> windowStart + k - 1, outcome |-> outcome, len |-> len]}
  /\ overtaken' = (overtaken \/ \E j \in 1..(k - 1) : slots[j] = pending)

\* fetchFiles: the content request of entry k of the window fails (the
\* request, or the decoding of a reply without content).
ContentFails(k) ==
  /\ pc = "fetching"
  /\ slots[k] = pending
  /\ slots' = [slots EXCEPT ![k] = [state |-> "null"]]
  /\ settles(k, "error", 0)
  /\ UNCHANGED <<inputVars, pc, filesToProcess, windowStart, results, originals,
                 batchVars, llmVars, resVars>>

\* sourceFile keeping only the first excerptLimit characters of the content.
sourceFile_excerpt(f, len) ==
  [path |-> f.path,
   content |-> [len |-> IF len < excerptLimit THEN len ELSE excerptLimit],
   size |-> len, priority |-> getFilePriority(f.path)]

\* The object fetchFiles returns for entry f whose decoded content is len
\* characters long.
sourceFile(f, len) ==
  [path |-> f.path, content |-> [len |-> len], size |-> len,
   priority |-> getFilePriority(f.path)]

\* fetchFiles: the content of entry k of the window arrives, len characters
\* long once decoded.
ContentArrives(k, len) ==
  /\ pc = "fetching"
  /\ slots[k] = pending
  /\ LET f == filesToProcess[windowStart + k - 1]
     IN slots' = [slots EXCEPT ![k] =
          IF len > sizeCeiling THEN [state |-> "null"]
          ELSE [state |-> "file", file |-> sourceFile(f, len)]]
  /\ settles(k, "content", len)
  /\ UNCHANGED <<inputVars, pc, filesToProcess, windowStart, results, originals,
                 batchVars, llmVars, resVars>>

RECURSIVE settledFiles_untilNull(_)
\* settledFiles giving up the window's later files at the first null.
settledFiles_untilNull(window) ==
  IF window = <<>> THEN <<>>
  ELSE IF Head(window).state = "file"
  THEN <<Head(window).file>> \o settledFiles_untilNull(Tail(window))
  ELSE <<>>

RECURSIVE settledFiles_lastFirst(_)
\* settledFiles listing the files of the window from its last request to
\* its first.
settledFiles_lastFirst(window) ==
  IF window = <<>> THEN <<>>
  ELSE settledFiles_lastFirst(Tail(window))
         \o (IF Head(window).state = "file" THEN <<Head(window).file>> ELSE <<>>)

RECURSIVE settledFiles(_)
\* batchResults.filter(Boolean) of a settled window.
settledFiles(window) ==
  IF window = <<>> THEN <<>>
  ELSE (IF Head(window).state = "file" THEN <<Head(window).file>> ELSE <<>>)
         \o settledFiles(Tail(window))

\* fetchFiles: all requests of the window are settled; the files are pushed
\* to results, and fetchFiles waits for the delay between two windows, or
\* returns after the last window.
WindowDone ==
  /\ pc = "fetching"
  /\ \A k \in 1..Len(slots) : slots[k] # pending
  /\ results' = results \o settledFiles(slots)
  /\ IF windowStart + batchSize <= Len(filesToProcess)
     THEN /\ pc' = "pausing"
          /\ UNCHANGED <<originals, batchVars, resVars>>
     ELSE afterFetch(results \o settledFiles(slots))
  /\ UNCHANGED <<inputVars, filesToProcess, windowStart, slots, fetchHistory, llmVars>>

\* fetchFiles: the delay between two windows is over, and the content
\* requests of the next window are sent.
PauseEnds ==
  /\ pc = "pausing"
  /\ pc' = "fetching"
  /\ windowStart' = windowStart + batchSize
  /\ slots' = windowOf(filesToProcess, windowStart + batchSize)
  /\ UNCHANGED <<inputVars, filesToProcess, results, fetchHistory, originals,
                 batchVars, llmVars, resVars>>

\* The handler after batch i: the next batch, or the response after the last.
afterBatch(conv, failed, outcomes) ==
  /\ converted' = conv
  /\ failedFiles' = failed
  /\ batchResults' = outcomes
  /\ batches' = batches
  /\ IF i < Len(batches)
     THEN /\ i' = i + 1
          /\ pc' = "converting"
          /\ UNCHANGED resVars
     ELSE /\ i' = i
          /\ respond(buildResponse(originals, conv, outcomes, body.target))

\* batchConverted recording the number of files of the batch as fileCount.
batchConverted_inputCount(files) ==
  afterBatch(converted \o files, failedFiles,
             Append(batchResults,
                    [batch |-> i, status |-> "success", fileCount |-> Len(batches[i])]))

\* The try branch of the batch loop: convertBatch returned files.
batchConverted(files) ==
  afterBatch(converted \o files, failedFiles,
             Append(batchResults,
                    [batch |-> i, status |-> "success", fileCount |-> Len(files)]))

\* The catch branch of the batch loop: convertBatch raised message.
batchFailed(message) ==
  IF fallbackThrows(body.target)
  THEN /\ respondInCatch(errorResponse(500,
              "target.language.toLowerCase is not a function"))
       /\ UNCHANGED batchVars
  ELSE afterBatch(converted \o createFallbackFiles(batches[i], body.target),
                  failedFiles \o batches[i],
                  Append(batchResults,
                         [batch |-> i, status |-> "fallback", error |-> message,
                          fileCount |-> Len(createFallbackFiles(batches[i], body.target))]))

\* StartBatch sending the requests of batch i and of all later batches at
\* once.
StartBatch_allAtOnce ==
  /\ pc = "converting"
  /\ IF ~OPENROUTER_KEY
     THEN /\ batchFailed(missingKeyError.error)
          /\ engineLog' = Append(engineLog,
                 [batch |-> i, llm |-> [kind |-> "none"], result |-> missingKeyError])
          /\ UNCHANGED <<llmLog, inFlight>>
     ELSE /\ pc' = "awaiting"
          /\ llmLog' = Append(llmLog, i)
          /\ inFlight' = inFlight \cup (i..Len(batches))
          /\ UNCHANGED <<batchVars, engineLog, resVars>>
  /\ UNCHANGED <<inputVars, fetchVars, originals>>

\* The handler calls convertBatch for batch i: without credentials it
\* raises at once, otherwise the request to the LLM is sent.
StartBatch ==
  /\ pc = "converting"
  /\ IF ~OPENROUTER_KEY
     THEN /\ batchFailed(missingKeyError.error)
          /\ engineLog' = Append(engineLog,
                 [batch |-> i, llm |-> [kind |-> "none"], result |-> missingKeyError])
          /\ UNCHANGED <<llmLog, inFlight>>
     ELSE /\ pc' = "awaiting"
          /\ llmLog' = Append(llmLog, i)
          /\ inFlight' = inFlight \cup {i}
          /\ UNCHANGED <<batchVars, engineLog, resVars>>
  /\ UNCHANGED <<inputVars, fetchVars, originals>>

\* The request to the LLM for batch i ends with outcome llm; convertBatch
\* returns or raises and the handler records the batch.
LLMReturns(llm) ==
  /\ pc = "awaiting"
  /\ inFlight' = inFlight \ {i}
  /\ \E r \in {convertReply(batches[i], llm)} :
        /\ engineLog' = Append(engineLog, [batch |-> i, llm |-> llm, result |-> r])
        /\ IF r.ok THEN batchConverted(r.files) ELSE batchFailed(r.error)
  /\ UNCHANGED <<inputVars, fetchVars, originals, llmLog>>

Next ==
  \/ Receive
  \/ ListingFails
  \/ ListingArrives
  \/ \E k \in 1..Len(slots) : ContentFails(k)
  \/ \E k \in 1..Len(slots) : \E len \in ContentLengths : ContentArrives(k, len)
  \/ WindowDone
  \/ StartBatch
  \/ \E llm \in LLMOutcomes : LLMReturns(llm)

Spec == Init /\ [][Next]_vars

\* The runs of a server whose credentials are set.
InitWithKey == Init /\ OPENROUTER_KEY

SpecWithKey == InitWithKey /\ [][Next]_vars

\* ------------------------------------------- the Planner on its own inputs
\* Largest number of fetched files given to the Planner.
MaxPlanFiles == 4

\* The entries the Planner's inputs are drawn from.
plannerListing == <<
  [path |-> <<"R","E","A","D","M","E",".","m","d">>, type |-> "blob"],
  [path |-> <<"p","a","c","k","a","g","e",".","j","s","o","n">>, type |-> "blob"],
  [path |-> <<"s","r","c","/","a","p","p",".","t","s">>, type |-> "blob"],
  [path |-> <<"s","r","c","/","i","n","d","e","x",".","t","s">>, type |-> "blob"],
  [path |-> <<"s","r","c","/","u","t","i","l",".","t","s">>, type |-> "blob"] >>

\* Lengths of the contents of the Planner's inputs: empty, small, mid-size,
\* above sizeLimit.
PlanLengths == {0, 30000, 50000, 90000}

\* A request that passes the validation.
validRequest(language) == [hasRequired |-> TRUE, target |-> targetOf(language)]

\* The state of fetchFiles when every content request of its only window
\* has arrived: the entries S of listing, entry e with a content of len[e]
\* characters.
fetchedState(listing, S, len) ==
  /\ tree = SelectSeqBy(listing, S)
  /\ filesToProcess = selectFiles(tree)
  /\ windowStart = 1
  /\ slots = [k \in 1..Len(filesToProcess) |->
                [state |-> "file",
                 file |-> sourceFile(filesToProcess[k], len[filesToProcess[k]])]]
  /\ fetchLog = {[entry |-> k, outcome |-> "content",
                  len |-> len[filesToProcess[k]]] : k \in 1..Len(filesToProcess)}
  /\ overtaken = FALSE

\* fetchFiles is about to return the files of the entries it selected.
PlannerInit ==
  /\ OPENROUTER_KEY = TRUE
  /\ body = validRequest(JSString(<<"P","y","t","h","o","n">>))
  /\ requestComplete \in completions(body)
  /\ \E S \in {T \in SUBSET {plannerListing[k] : k \in 1..Len(plannerListing)} :
                 Cardinality(T) <= MaxPlanFiles} :
       \E len \in [S -> PlanLengths] : fetchedState(plannerListing, S, len)
  /\ pc = "fetching"
  /\ results = <<>>
  /\ originals = <<>>
  /\ batches = <<>>
  /\ i = 1
  /\ converted = <<>>
  /\ failedFiles = <<>>
  /\ batchResults = <<>>
  /\ llmLog = <<>>
  /\ engineLog = <<>>
  /\ inFlight = {}
  /\ response = noResponse
  /\ resWrites = <<>>
  /\ finished = FALSE

PlannerNext == WindowDone

SpecPlanner == PlannerInit /\ [][PlannerNext]_vars

\* ------------------------------- the Fallback Generator on its own inputs
\* Largest number of files of a run whose batches fall back.
MaxFallbackFiles == 2

\* The entries the Fallback Generator's inputs are drawn from.
fallbackListing == <<
  [path |-> <<"D","o","c","k","e","r","f","i","l","e">>, type |-> "blob"],
  [path |-> <<"l","i","b",".","v","2","/","u","t","i","l",".","t","e","s","t",".","t","s">>, type |-> "blob"],
  [path |-> <<"m","y",".","d","i","r","/","M","a","k","e","f","i","l","e">>, type |-> "blob"],
  [path |-> <<"s","r","c","/","a","p","p",".","j","s">>, type |-> "blob"],
  [path |-> <<"s","r","c","/","a","p","p",".","t","s">>, type |-> "blob"] >>

\* Lengths of the contents: below and above excerptLimit, and mid-size.
FallbackLengths == {500, 2000, 50000}

\* The languages of the targets.
Languages == {
  JSString(<<"p","y","t","h","o","n">>), JSString(<<"P","y","t","h","o","n">>), JSString(<<"J","a","v","a","S","c","r","i","p","t">>),
  JSString(<<"n","o","d","e",".","j","s">>), JSString(<<"N","o","d","e",".","J","S">>), JSString(<<"t","y","p","e","s","c","r","i","p","t">>),
  JSString(<<"J","a","v","a">>), JSString(<<"c","#">>), JSString(<<"C","S","h","a","r","p">>), JSString(<<"g","o">>),
  JSString(<<"G","O">>), JSString(<<"r","u","s","t">>), JSNumber(42) }

\* The handler is about to call convertBatch for the first batch.
FallbackInit ==
  /\ OPENROUTER_KEY \in BOOLEAN
  /\ body \in {validRequest(l) : l \in Languages}
  /\ requestComplete \in completions(body)
  /\ \E S \in {T \in SUBSET {fallbackListing[k] : k \in 1..Len(fallbackListing)} :
                 Cardinality(T) >= 1 /\ Cardinality(T) <= MaxFallbackFiles} :
       \E len \in [S -> FallbackLengths] :
         /\ fetchedState(fallbackListing, S, len)
         /\ results = settledFiles(slots)
  /\ originals = results
  /\ batches = planBatches(originals)
  /\ pc = "converting"
  /\ i = 1
  /\ converted = <<>>
  /\ failedFiles = <<>>
  /\ batchResults = <<>>
  /\ llmLog = <<>>
  /\ engineLog = <<>>
  /\ inFlight = {}
  /\ response = noResponse
  /\ resWrites = <<>>
  /\ finished = FALSE

\* The request to the LLM fails.
LLMFails == LLMReturns([kind |-> "network_error"])

FallbackNext == StartBatch \/ LLMFails

SpecFallback == FallbackInit /\ [][FallbackNext]_vars

\* ---------------------------------- the Fetcher on a tree of several windows
\* Number of entries of the tree: more than one window of content requests.
MaxFetchEntries == 11

\* Largest number of requests of the first window that are outstanding.
MaxPending == 3

\* The path src/mNN.ts of the n-th module of the tree.
modulePath(n) ==
  <<"s","r","c","/","m">> \o <<Digits[(n \div 10) + 1], Digits[(n % 10) + 1]>> \o <<".","t","s">>

\* A tree of n entries in the order of a tree listing: package.json, then
\* the modules.
fetcherListing(n) ==
  [k \in 1..n |->
     IF k = 1 THEN [path |-> <<"p","a","c","k","a","g","e",".","j","s","o","n">>, type |-> "blob"]
     ELSE [path |-> modulePath(k - 1), type |-> "blob"]]

\* Length of the decoded contents that arrive.
FetcherLength == 30000

\* fetchFiles has sent the first window of content requests; the first
\* requests of the window have settled, one after the other, each with an
\* error or with its content, and the others are outstanding.
FetcherInit ==
  /\ OPENROUTER_KEY = TRUE
  /\ body = validRequest(JSString(<<"P","y","t","h","o","n">>))
  /\ requestComplete \in completions(body)
  /\ tree = fetcherListing(MaxFetchEntries)
  /\ filesToProcess = selectFiles(tree)
  /\ pc = "fetching"
  /\ windowStart = 1
  /\ \E outcome \in [1..(batchSize - MaxPending) -> {"error", "content"}] :
       /\ slots = [k \in 1..batchSize |->
                     IF k > batchSize - MaxPending THEN pending
                     ELSE IF outcome[k] = "error" THEN [state |-> "null"]
                     ELSE [state |-> "file",
                           file |-> sourceFile(filesToProcess[k], FetcherLength)]]
       /\ fetchLog = {[entry |-> k, outcome |-> outcome[k],
                       len |-> IF outcome[k] = "error" THEN 0 ELSE FetcherLength] :
                        k \in 1..(batchSize - MaxPending)}
  /\ overtaken = FALSE
  /\ results = <<>>
  /\ originals = <<>>
  /\ batches = <<>>
  /\ i = 1
  /\ converted = <<>>
  /\ failedFiles = <<>>
  /\ batchResults = <<>>
  /\ llmLog = <<>>
  /\ engineLog = <<>>
  /\ inFlight = {}
  /\ response = noResponse
  /\ resWrites = <<>>
  /\ finished = FALSE

FetcherNext ==
  \/ \E k \in 1..Len(slots) : ContentFails(k)
  \/ \E k \in 1..Len(slots) : ContentArrives(k, FetcherLength)
  \/ WindowDone
  \/ PauseEnds

SpecFetcher == FetcherInit /\ [][FetcherNext]_vars

\* ------------------- the Selector, the Fetcher and the Planner on their own
\* Largest number of entries of a tree given to the Selector.
MaxIntake == 3

\* The entries the trees are drawn from, in the order of a tree listing:
\* entries under each directory that isRelevantFile skips, entries with the
\* suffixes it skips, a directory whose name has an accepted extension, and
\* entries it accepts; and names in upper case: an important file, an
\* extension, and an extension written with U+212A KELVIN SIGN.
intakeListing == <<
  [path |-> <<".","c","a","c","h","e","/","b","a","b","e","l","/","a",".","j","s","o","n">>, type |-> "blob"],
  [path |-> <<".","g","i","t","/","h","o","o","k","s","/","p","r","e","-","p","u","s","h",".","s","h">>, type |-> "blob"],
  [path |-> <<".","g","i","t","h","u","b","/","c","i",".","y","m","l">>, type |-> "blob"],
  [path |-> <<".","i","d","e","a","/","w","o","r","k","s","p","a","c","e",".","x","m","l">>, type |-> "blob"],
  [path |-> <<".","n","y","c","_","o","u","t","p","u","t","/","r","u","n",".","j","s","o","n">>, type |-> "blob"],
  [path |-> <<".","v","s","c","o","d","e","/","s","e","t","t","i","n","g","s",".","j","s","o","n">>, type |-> "blob"],
  [path |-> <<"b","u","i","l","d","/","g","e","n",".","t","s">>, type |-> "blob"],
  [path |-> <<"c","o","v","e","r","a","g","e","/","l","c","o","v",".","j","s","o","n">>, type |-> "blob"],
  [path |-> <<"l","i","b","/","t","h","r","e","e",".","j","s">>, type |-> "tree"],
  [path |-> <<"l","o","g","s","/","a","p","p",".","l","o","g">>, type |-> "blob"],
  [path |-> <<"n","o","d","e","_","m","o","d","u","l","e","s","/","x","/","i","n","d","e","x",".","j","s">>, type |-> "blob"],
  [path |-> <<"p","a","c","k","a","g","e","s","/","w","e","b","/","d","i","s","t","/","b","u","n","d","l","e",".","j","s">>, type |-> "blob"],
  [path |-> <<"s","r","c","/",".","D","S","_","S","t","o","r","e">>, type |-> "blob"],
  [path |-> <<"s","r","c","/","m","a","i","n",".","p","y">>, type |-> "blob"],
  [path |-> <<"w","e","b","/","D","O","C","K","E","R","F","I","L","E">>, type |-> "blob"],
  [path |-> <<"w","e","b","/","M","a","i","n",".","U+212A","T">>, type |-> "blob"],
  [path |-> <<"w","e","b","/","V","i","e","w",".","T","S","X">>, type |-> "blob"] >>

\* The tree listings of at most MaxIntake entries.
IntakeTrees ==
  {SelectSeqBy(intakeListing, S) :
     S \in {T \in SUBSET {intakeListing[k] : k \in 1..Len(intakeListing)} :
              Cardinality(T) <= MaxIntake}}

\* Lengths of the decoded contents: small, at the ceiling, above it.
IntakeLengths == {30000, 100000, 100001}

\* A valid request arrives for a repository with one of the trees.
IntakeInit ==
  /\ OPENROUTER_KEY = TRUE
  /\ body = validRequest(JSString(<<"P","y","t","h","o","n">>))
  /\ requestComplete \in completions(body)
  /\ tree \in IntakeTrees
  /\ startState

IntakeNext ==
  \/ Receive
  \/ ListingFails
  \/ ListingArrives
  \/ \E k \in 1..Len(slots) : ContentFails(k)
  \/ \E k \in 1..Len(slots) : \E len \in IntakeLengths : ContentArrives(k, len)
  \/ WindowDone

SpecIntake == IntakeInit /\ [][IntakeNext]_vars

\* ---------------------------------- the Selector on trees above maxEntries
\* Largest number of accepted entries above maxEntries.
MaxSurplus == 3

\* The three digits of n.
threeDigits(n) ==
  <<Digits[(n \div 100) + 1], Digits[((n \div 10) % 10) + 1], Digits[(n % 10) + 1]>>

\* The n-th entry of a repository: a manifest, an entry point, a dependency
\* under node_modules and a directory now and then; names with brackets,
\* with an at sign, with a space and an accented capital; a manifest
\* written with U+212A KELVIN SIGN; two modules whose names differ in that
\* one has the KELVIN SIGN where the other has a K; a module otherwise.
repositoryEntry(n) ==
  CASE n % 50 = 0 ->
         [path |-> <<"p","k","g">> \o threeDigits(n) \o <<"/","p","a","c","k","a","g","e",".","j","s","o","n">>, type |-> "blob"]
    [] n % 50 = 1 ->
         [path |-> <<"s","r","c","/","i","n","d","e","x">> \o threeDigits(n) \o <<".","t","s">>, type |-> "blob"]
    [] n % 50 = 2 ->
         [path |-> <<"n","o","d","e","_","m","o","d","u","l","e","s","/","m">> \o threeDigits(n) \o <<".","j","s">>, type |-> "blob"]
    [] n % 50 = 3 ->
         [path |-> <<"l","i","b","/","d">> \o threeDigits(n) \o <<".","j","s">>, type |-> "tree"]
    [] n % 50 = 4 ->
         [path |-> <<"s","r","c","/","[","i","d","]">> \o threeDigits(n) \o <<".","t","s","x">>, type |-> "blob"]
    [] n % 50 = 5 ->
         [path |-> <<"s","r","c","/","@","t","y","p","e","s","/","f">> \o threeDigits(n) \o <<".","t","s">>, type |-> "blob"]
    [] n % 50 = 6 ->
         [path |-> <<"s","r","c","/","M","y"," ","U+00C9","t","u","d","e">> \o threeDigits(n) \o <<".","t","s">>, type |-> "blob"]
    [] n % 50 = 7 ->
         [path |-> <<"c","f","g">> \o threeDigits(n) \o <<"/","P","A","C","U+212A","A","G","E",".","J","S","O","N">>, type |-> "blob"]
    [] n % 50 = 8 ->
         [path |-> <<"s","r","c","/","U+212A">> \o threeDigits(n) \o <<".","t","s">>, type |-> "blob"]
    [] n % 50 = 9 ->
         [path |-> <<"s","r","c","/","K">> \o threeDigits(n - 1) \o <<".","t","s">>, type |-> "blob"]
    [] OTHER ->
         [path |-> <<"s","r","c","/","f">> \o threeDigits(n) \o <<".","t","s">>, type |-> "blob"]

\* A tree of n entries, listed from entry r + 1 on and around.
rotatedListing(n, r) == [k \in 1..n |-> repositoryEntry(((k + r - 1) % n) + 1)]

\* Numbers of entries of the trees: from two accepted entries fewer than
\* maxEntries to MaxSurplus more (ten entries of each tree are not accepted).
SelectorSizes == (maxEntries + 8)..(maxEntries + 10 + MaxSurplus)

SelectorRotations == {0, 7, 60, 120, 210}

\* A valid request arrives for a repository with one of the trees.
SelectorInit ==
  /\ OPENROUTER_KEY = TRUE
  /\ body = validRequest(JSString(<<"P","y","t","h","o","n">>))
  /\ requestComplete \in completions(body)
  /\ tree \in {rotatedListing(n, r) : n \in SelectorSizes, r \in SelectorRotations}
  /\ startState

SelectorNext ==
  \/ Receive
  \/ ListingFails
  \/ ListingArrives

SpecSelector == SelectorInit /\ [][SelectorNext]_vars

\* ------------------------------------ the Engine on replies of many shapes
\* Largest number of entries of the files of a reply.
MaxReplyEntries == 3

\* Entries of the files of a reply: null, a string, an object with a path
\* only.
nullEntry == <<NullTok>>
textEntry == <<StrTok(<<"a","p","p",".","p","y">>)>>
halfEntry == <<LBrace, StrTok(<<"p","a","t","h">>), Colon, StrTok(<<"h","a","l","f",".","p","y">>), RBrace>>

EntryKinds == {goodEntry, bareEntry, badEntry, nullEntry, textEntry, halfEntry}

RECURSIVE listOf(_)
\* The text of the entries, separated by commas.
listOf(entries) ==
  IF Len(entries) = 0 THEN <<>>
  ELSE IF Len(entries) = 1 THEN entries[1]
  ELSE entries[1] \o <<Comma>> \o listOf(Tail(entries))

\* The sequences of at most MaxReplyEntries entries.
EntryLists == UNION {[1..n -> EntryKinds] : n \in 0..MaxReplyEntries}

\* A reply with one member, of the given name and value.
memberReply(name, value) == <<LBrace, StrTok(name), Colon>> \o value \o <<RBrace>>

\* Replies whose text is JSON but no object with a sequence files: null, a
\* number, a string, true, a sequence of entries, an object without files,
\* and objects whose files is null, a number, a string or an object.
ShapelessReplies == {textOf(r) : r \in {
  <<NullTok>>, <<NumTok(0)>>, <<NumTok(7)>>, <<StrTok(<<"f","i","l","e","s">>)>>, <<TrueTok>>,
  <<LBracket>> \o goodEntry \o <<RBracket>>,
  <<LBrace, RBrace>>,
  memberReply(<<"r","e","s","u","l","t">>, <<LBracket>> \o goodEntry \o <<RBracket>>),
  memberReply(<<"f","i","l","e","s">>, <<NullTok>>),
  memberReply(<<"f","i","l","e","s">>, <<NumTok(1)>>),
  <<Numeral(<<"1","e","-","4","0","0">>)>>,
  memberReply(<<"f","i","l","e","s">>, <<Numeral(<<"-","0",".","0","2","5","E","+","3">>)>>),
  memberReply(<<"f","i","l","e","s">>, <<StrTok(<<"n","o","n","e">>)>>),
  memberReply(<<"f","i","l","e","s">>, goodEntry) }}

\* Replies that name files twice: the later member is the one that counts.
TwiceReplies == {textOf(r) : r \in {
  <<LBrace, StrTok(<<"f","i","l","e","s">>), Colon, NullTok, Comma,
    StrTok(<<"f","i","l","e","s">>), Colon, LBracket>> \o goodEntry \o <<RBracket, RBrace>>,
  <<LBrace, StrTok(<<"f","i","l","e","s">>), Colon, LBracket>> \o goodEntry \o <<RBracket, Comma,
    StrTok(<<"f","i","l","e","s">>), Colon, NullTok, RBrace>> }}

\* Replies in which braces stand outside the object with files: a second
\* pair of braces after it, with and without prose; a "}" alone after it; a
\* pair of braces around prose before it; a "}" alone before it; a "{" that
\* is never closed; and braces in strings outside the object: a string with
\* a "{" before it, a string with a "}" after it, a string with both and no
\* object, and two strings that the match cuts into the text of an object.
BracedReplies == {textOf(r) : r \in {
  <<Prose>> \o filesReply(goodEntry) \o <<Prose, LBrace, Prose, RBrace>>,
  filesReply(goodEntry) \o <<LBrace, RBrace>>,
  <<Prose>> \o filesReply(goodEntry) \o <<RBrace>>,
  <<LBrace, Prose, RBrace>> \o filesReply(goodEntry),
  <<Prose, RBrace>> \o filesReply(goodEntry) \o <<Prose>>,
  <<Prose, LBrace, Prose>>,
  <<StrTok(<<"a","{">>)>> \o filesReply(goodEntry),
  filesReply(goodEntry) \o <<StrTok(<<"}">>)>>,
  <<Prose, StrTok(<<"{","}">>)>>,
  <<StrTok(<<"{">>), Prose, StrTok(<<":","1","}">>)>> }}

\* The replies given to the Engine: an object with files for each list of
\* entries, alone and between words of prose, and the other shapes.
EngineReplies ==
  {textOf(filesReply(listOf(es))) : es \in EntryLists}
    \cup {textOf(<<Prose>> \o filesReply(listOf(es)) \o <<Prose>>) : es \in EntryLists}
    \cup ShapelessReplies \cup TwiceReplies \cup BracedReplies
    \cup {replyBroken, replyProse}

EngineOutcomes ==
  {[kind |-> "network_error"], [kind |-> "http_error"]}
    \cup {[kind |-> "ok", reply |-> r] : r \in EngineReplies}

\* The handler is about to call convertBatch for the only batch of a run
\* that fetched src/app.ts and README.md.
EngineInit ==
  /\ OPENROUTER_KEY \in BOOLEAN
  /\ body = validRequest(JSString(<<"P","y","t","h","o","n">>))
  /\ requestComplete \in completions(body)
  /\ \E S \in { {plannerListing[1], plannerListing[3]} } :
       /\ fetchedState(plannerListing, S, [e \in S |-> 30000])
       /\ results = settledFiles(slots)
  /\ originals = results
  /\ batches = planBatches(originals)
  /\ pc = "converting"
  /\ i = 1
  /\ converted = <<>>
  /\ failedFiles = <<>>
  /\ batchResults = <<>>
  /\ llmLog = <<>>
  /\ engineLog = <<>>
  /\ inFlight = {}
  /\ response = noResponse
  /\ resWrites = <<>>
  /\ finished = FALSE

EngineNext ==
  \/ StartBatch
  \/ \E llm \in EngineOutcomes : LLMReturns(llm)

SpecEngine == EngineInit /\ [][EngineNext]_vars

\* ------------------------------- the priorities of the files that are fetched
\* Largest number of entries of a tree whose files are given priorities.
MaxPriorityTree == 3

\* The entries the trees are drawn from, in the order of a tree listing:
\* manifests at the root and in a directory, files under directories whose
\* names hold the word of a manifest or of an entry point, an entry point
\* and a plain module; and a manifest written with U+212A KELVIN SIGN, an
\* entry point written with U+0130.
priorityListing == <<
  [path |-> <<"G","e","m","f","i","l","e">>, type |-> "blob"],
  [path |-> <<"M","A","U+0130","N",".","t","s">>, type |-> "blob"],
  [path |-> <<"P","A","C","U+212A","A","G","E",".","J","S","O","N">>, type |-> "blob"],
  [path |-> <<"a","p","i","/","p","a","c","k","a","g","e",".","j","s","o","n">>, type |-> "blob"],
  [path |-> <<"g","e","m","f","i","l","e","s","/","r","a","i","l","s",".","r","b">>, type |-> "blob"],
  [path |-> <<"m","a","i","n","t","e","n","a","n","c","e","/","n","o","t","e","s",".","m","d">>, type |-> "blob"],
  [path |-> <<"s","r","c","/","m","a","i","n","/","u","t","i","l",".","t","s">>, type |-> "blob"],
  [path |-> <<"s","r","c","/","s","e","r","v","e","r",".","t","s">>, type |-> "blob"],
  [path |-> <<"s","r","c","/","u","t","i","l",".","t","s">>, type |-> "blob"] >>

\* The tree listings of at most MaxPriorityTree entries.
PriorityTrees ==
  {SelectSeqBy(priorityListing, S) :
     S \in {T \in SUBSET {priorityListing[k] : k \in 1..Len(priorityListing)} :
              Cardinality(T) <= MaxPriorityTree}}

\* Length of the decoded contents that arrive.
PriorityLength == 30000

\* A valid request arrives for a repository with one of the trees.
PriorityInit ==
  /\ OPENROUTER_KEY = TRUE
  /\ body = validRequest(JSString(<<"P","y","t","h","o","n">>))
  /\ requestComplete \in completions(body)
  /\ tree \in PriorityTrees
  /\ startState

PriorityNext ==
  \/ Receive
  \/ ListingFails
  \/ ListingArrives
  \/ \E k \in 1..Len(slots) : ContentFails(k)
  \/ \E k \in 1..Len(slots) : ContentArrives(k, PriorityLength)
  \/ WindowDone

SpecPriority == PriorityInit /\ [][PriorityNext]_vars

\* ------------------------------------- the timers of the timeout middleware
\* What a callback of the middleware finds and leaves: the response, the
\* calls of res.json, and whether a callback has thrown.
beforeCallbacks == [response |-> response, resWrites |-> resWrites, thrown |-> FALSE]

\* A callback of the middleware calls res.status(408).json(...), without a
\* test of res.headersSent: it sends the 408 when nothing was written, and
\* otherwise res.json throws ERR_HTTP_HEADERS_SENT out of the callback.
\* After a callback has thrown no further callback runs.
timerFires(st, timer, message) ==
  IF st.thrown THEN st
  ELSE IF st.resWrites = <<>>
  THEN [response |-> errorResponse(408, message),
        resWrites |-> <<call(timer, TRUE)>>, thrown |-> FALSE]
  ELSE [response |-> st.response,
        resWrites |-> Append(st.resWrites, call(timer, FALSE)), thrown |-> TRUE]

\* req.setTimeout(10 * 60 * 1000, ...): the server emits the timeout on the
\* request while the request is not complete.
RequestTimeout(st) ==
  IF ~requestComplete THEN timerFires(st, "requestTimer", "Request timeout") ELSE st

\* res.setTimeout(10 * 60 * 1000, ...): the server emits the timeout on the
\* response while the response is attached to the socket.
ResponseTimeout(st) ==
  IF ~finished THEN timerFires(st, "responseTimer", "Response timeout") ELSE st

\* The socket of the request has been idle for the timeout.  The timers are
\* installed when the middleware runs and are never cleared, so this
\* happens while the handler is suspended in an await as well as after it
\* has returned.  The server emits the timeout first on the request, then
\* on the response; an error thrown by a callback is an uncaught exception,
\* which ends the process.
SocketTimeout ==
  /\ pc \notin {"received", "crashed"}
  /\ ~requestComplete \/ ~finished
  /\ \E st \in {ResponseTimeout(RequestTimeout(beforeCallbacks))} :
       /\ response' = st.response
       /\ resWrites' = st.resWrites
       /\ pc' = IF st.thrown THEN "crashed" ELSE pc
  /\ finished' = finished
  /\ UNCHANGED <<inputVars, fetchVars, originals, batchVars, llmVars>>

\* The response that was written has gone to the socket to its end: the
\* server detaches it from the socket.
ResponseFinishes ==
  /\ pc # "crashed"
  /\ headersSent
  /\ ~finished
  /\ finished' = TRUE
  /\ UNCHANGED <<inputVars, pc, fetchVars, originals, batchVars, llmVars,
                 response, resWrites>>

\* Length of the decoded contents that arrive: two of them do not fit in
\* one batch.
TimeoutLength == 50000

\* Outcomes of the requests to the LLM.
TimeoutOutcomes ==
  {[kind |-> "network_error"], [kind |-> "ok", reply |-> replyGood],
   [kind |-> "ok", reply |-> replyNoValid]}

\* A request arrives for a repository of two files, on a server with
\* credentials: a valid request, or one that the body parsers passed on
\* unread.
TimeoutInit ==
  /\ OPENROUTER_KEY = TRUE
  /\ body \in {validRequest(JSString(<<"P","y","t","h","o","n">>)),
               [hasRequired |-> FALSE, target |-> JSUndefined]}
  /\ requestComplete \in completions(body)
  /\ tree = <<plannerListing[2], plannerListing[3]>>
  /\ startState

TimeoutNext ==
  \/ Receive
  \/ ListingFails
  \/ ListingArrives
  \/ \E k \in 1..Len(slots) : ContentFails(k)
  \/ \E k \in 1..Len(slots) : ContentArrives(k, TimeoutLength)
  \/ WindowDone
  \/ StartBatch
  \/ \E llm \in TimeoutOutcomes : LLMReturns(llm)
  \/ SocketTimeout
  \/ ResponseFinishes

SpecTimeout == TimeoutInit /\ [][TimeoutNext]_vars

\* ------------------------------------------------------ claims: vocabulary
RECURSIVE flatten(_)
\* The concatenation of the batches, in batch order.
flatten(bs) == IF bs = <<>> THEN <<>> ELSE Head(bs) \o flatten(Tail(bs))

RECURSIVE totalSize(_)
\* Cumulative content length of a batch.
totalSize(batch) ==
  IF batch = <<>> THEN 0 ELSE Head(batch).content.len + totalSize(Tail(batch))

\* The tree holds an entry the Selector accepts.
hasSelectable(listing) ==
  \E k \in 1..Len(listing) :
    listing[k].type = "blob" /\ isRelevantFile(listing[k].path)

\* Number of files the handler appends for the k-th call of convertBatch:
\* the files the Engine returned, or one stub for each file of the batch.
appendedCount(k) ==
  IF engineLog[k].result.ok THEN Len(engineLog[k].result.files)
  ELSE Len(batches[engineLog[k].batch])

RECURSIVE appendedBefore(_)
\* Number of files appended for the calls before the k-th.
appendedBefore(k) ==
  IF k <= 1 THEN 0 ELSE appendedBefore(k - 1) + appendedCount(k - 1)

\* The part of converted that belongs to the k-th call of convertBatch.
appendedFor(k) ==
  SubSeq(converted, appendedBefore(k) + 1, appendedBefore(k) + appendedCount(k))

\* A stub for each file of the batch, in input order: flagged as fallback
\* and naming that file as its original.
stubsOf(files, batch) ==
  /\ Len(files) = Len(batch)
  /\ \A j \in 1..Len(batch) :
       /\ files[j].isFallback = [t |-> "boolean", b |-> TRUE]
       /\ files[j].originalPath = JSString(batch[j].path)

\* The reply is no JSON text and holds no "{" followed later by a "}".
noJsonInReply(llm) ==
  /\ llm.kind = "ok"
  /\ ~JSONparse(llm.reply).ok
  /\ ~\E a, b \in 1..Len(llm.reply) :
        a < b /\ llm.reply[a] = "{" /\ llm.reply[b] = "}"

\* ------------------------------------------------------------------ claims
\* C1 as stated: a run on a repository whose tree holds a selectable entry
\* never answers with a success whose files are empty.
C1_NeverEmptySuccess ==
  (hasSelectable(tree) /\ response.status = 200) => Len(response.files) > 0

\* C1 as amended: a run that fetched at least one file never answers with
\* a success whose files are empty: its response is a success with files, or
\* an error.
C1_NonEmptyWhenFetched ==
  (pc = "done" /\ Len(originals) > 0) =>
    \/ response.status = 200 /\ Len(response.files) > 0
    \/ response.status >= 400

\* A run in which one content request failed and another arrived answers
\* with a success that has files.
C1_Witness ==
  /\ pc = "done"
  /\ hasSelectable(tree)
  /\ 0 < Len(originals) /\ Len(originals) < Len(filesToProcess)
  /\ response.status = 200
  /\ Len(response.files) > 0

\* C2: in a successful result, the originalPath of every file is the path
\* of a file fetched in the run.
C2_OriginalPathTraces ==
  response.status = 200 =>
    \A k \in 1..Len(response.files) :
      /\ response.files[k].originalPath.t = "string"
      /\ \E j \in 1..Len(originals) :
           JSString(originals[j].path) = response.files[k].originalPath

\* C3: every batch is non-empty and either within sizeLimit or one file
\* that is larger than sizeLimit on its own.
C3_BatchesBounded ==
  \A b \in 1..Len(batches) :
    /\ Len(batches[b]) > 0
    /\ \/ totalSize(batches[b]) <= sizeLimit
       \/ Len(batches[b]) = 1 /\ batches[b][1].content.len > sizeLimit

\* The Planner made a batch of several files that fills sizeLimit exactly
\* and a batch of one file above sizeLimit.
C3_Witness ==
  /\ pc = "converting"
  /\ \E b \in 1..Len(batches) :
       Len(batches[b]) >= 2 /\ totalSize(batches[b]) = sizeLimit
  /\ \E b \in 1..Len(batches) :
       Len(batches[b]) = 1 /\ batches[b][1].content.len > sizeLimit

\* C4: the batches, one after the other, are the sequence of fetched files:
\* each file once, in the order fetchFiles returned them.
C4_BatchesPartitionInput ==
  pc = "converting" => flatten(batches) = results

\* The Planner split files of all three priority tiers into several
\* batches, one of them holding files of two tiers.
C4_Witness ==
  /\ pc = "converting"
  /\ Len(batches) >= 2
  /\ \A p \in 1..3 : \E k \in 1..Len(results) : results[k].priority = p
  /\ \E b \in 1..Len(batches) :
       \E j, k \in 1..Len(batches[b]) :
         batches[b][j].priority # batches[b][k].priority

\* C5: a batch whose reply is no JSON and holds no {...} is recorded with
\* outcome "fallback", the run does not end in an error, and once the run is
\* done every batch has its outcome and the response is a success.
C5_NoJsonReplyFallsBack ==
  \A k \in 1..Len(engineLog) :
    noJsonInReply(engineLog[k].llm) =>
      /\ k <= Len(batchResults)
      /\ batchResults[k].status = "fallback"
      /\ response.status # 500
      /\ pc = "done" =>
           response.status = 200 /\ Len(batchResults) = Len(batches)

\* C6: without credentials no batch is converted, no batch gets fallback
\* files and the response is no success.
C6_MissingKeyAborts ==
  (~OPENROUTER_KEY /\ Len(batches) > 0) =>
    /\ batchResults = <<>>
    /\ converted = <<>>
    /\ response.status # 200

\* C7: every call of convertBatch has exactly one outcome, in batch order:
\* "success" with the Engine's files appended when it returned, "fallback"
\* with its error message and the stubs appended when it raised, and
\* fileCount is the number of files appended.
C7_OneOutcomePerBatch ==
  /\ Len(batchResults) = Len(engineLog)
  /\ \A k \in 1..Len(engineLog) :
       k <= Len(batchResults) =>
         /\ batchResults[k].batch = engineLog[k].batch
         /\ batchResults[k].fileCount = Len(appendedFor(k))
         /\ batchResults[k].fileCount = appendedCount(k)
         /\ IF engineLog[k].result.ok
            THEN /\ batchResults[k].status = "success"
                 /\ appendedFor(k) = engineLog[k].result.files
            ELSE /\ batchResults[k].status = "fallback"
                 /\ batchResults[k].error = engineLog[k].result.error
                 /\ stubsOf(appendedFor(k), batches[engineLog[k].batch])

\* C8: for every batch whose call of convertBatch raised, the Fallback
\* Generator has produced its stubs: converted holds one stub for each file
\* of the batch, in input order, flagged as fallback and naming that file
\* as its original.
C8_FallbackOnePerInput ==
  \A k \in 1..Len(engineLog) :
    ~engineLog[k].result.ok =>
      /\ k <= Len(batchResults)
      /\ Len(converted) >= appendedBefore(k) + appendedCount(k)
      /\ stubsOf(appendedFor(k), batches[engineLog[k].batch])

\* The canonical extension of each language of Languages that is a string,
\* whatever its case; .txt for a language that is not in the table.
canonicalExtension(language) ==
  CASE language \in {JSString(<<"p","y","t","h","o","n">>), JSString(<<"P","y","t","h","o","n">>)} -> <<".","p","y">>
    [] language \in {JSString(<<"J","a","v","a","S","c","r","i","p","t">>), JSString(<<"n","o","d","e",".","j","s">>),
                     JSString(<<"N","o","d","e",".","J","S">>)} -> <<".","j","s">>
    [] language = JSString(<<"t","y","p","e","s","c","r","i","p","t">>) -> <<".","t","s">>
    [] language = JSString(<<"J","a","v","a">>) -> <<".","j","a","v","a">>
    [] language \in {JSString(<<"c","#">>), JSString(<<"C","S","h","a","r","p">>)} -> <<".","c","s">>
    [] language \in {JSString(<<"g","o">>), JSString(<<"G","O">>)} -> <<".","g","o">>
    [] language = JSString(<<"r","u","s","t">>) -> <<".","t","x","t">>

\* Position of the last "." of the path.
lastDot(path) ==
  CHOOSE d \in sepPositions(path, ".") : \A e \in sepPositions(path, ".") : e <= d

\* The file name of the path has an extension.
hasExtension(path) ==
  \E d \in sepPositions(path, ".") :
    \A s \in sepPositions(path, "/") : s < d

\* C9: the path of every stub whose original has an extension is the
\* original path up to its last ".", followed by the canonical extension of
\* the target's language.
C9_FallbackPathExtension ==
  \A k \in 1..Len(converted) :
    LET orig == converted[k].originalPath.s
    IN hasExtension(orig) =>
         converted[k].path =
           JSString(SubSeq(orig, 1, lastDot(orig) - 1)
                      \o canonicalExtension(body.target.language))

\* python, in upper case too, applied to src/app.ts gives src/app.py; a
\* file name with two dots keeps all but its last extension; a language
\* outside the table gives .txt.
C9_Witness ==
  /\ body.target.language = JSString(<<"P","y","t","h","o","n">>)
  /\ \E k \in 1..Len(converted) :
       /\ converted[k].originalPath = JSString(<<"s","r","c","/","a","p","p",".","t","s">>)
       /\ converted[k].path = JSString(<<"s","r","c","/","a","p","p",".","p","y">>)
  /\ \E k \in 1..Len(converted) :
       /\ converted[k].originalPath = JSString(<<"l","i","b",".","v","2","/","u","t","i","l",".","t","e","s","t",".","t","s">>)
       /\ converted[k].path = JSString(<<"l","i","b",".","v","2","/","u","t","i","l",".","t","e","s","t",".","p","y">>)

\* C10: once a call of convertBatch has raised for a request that passed
\* the validation, the run does not end in an error: the Fallback Generator
\* returns its stubs.
C10_FallbackNeverRaises ==
  \A k \in 1..Len(engineLog) :
    ~engineLog[k].result.ok =>
      /\ response.status # 500
      /\ k <= Len(batchResults)
      /\ batchResults[k].fileCount = Len(batches[engineLog[k].batch])

RECURSIVE stubCount(_)
\* Number of stubs the Fallback Generator returned for the first n recorded
\* batches: one for each file of a batch whose outcome is "fallback".
stubCount(n) ==
  IF n = 0 THEN 0
  ELSE stubCount(n - 1)
         + (IF batchResults[n].status = "fallback"
            THEN Len(batches[batchResults[n].batch]) ELSE 0)

\* Positions in converted of the files appended for the k-th call of
\* convertBatch.
positionsFor(k) == (appendedBefore(k) + 1)..(appendedBefore(k) + appendedCount(k))

\* C11: in a result with a summary, every file flagged as fallback was
\* appended for a batch whose call of convertBatch raised, and the summary
\* and the warnings count as fallback exactly the stubs of the batches whose
\* outcome is "fallback".
C11_FallbackOnlyFromGenerator ==
  (response.status = 200 /\ "summary" \in DOMAIN response) =>
    /\ \A n \in 1..Len(response.files) :
         truthy(response.files[n].isFallback) =>
           \E k \in 1..Len(engineLog) :
             ~engineLog[k].result.ok /\ n \in positionsFor(k)
    /\ response.summary.fallbackFiles = stubCount(Len(batchResults))
    /\ "warnings" \in DOMAIN response =>
         Len(response.warnings.fallbackFiles) = stubCount(Len(batchResults))

RECURSIVE fallbackBatchPaths(_)
\* The paths of the source files of the batches whose outcome is
\* "fallback", among the first n recorded batches, in batch order.
fallbackBatchPaths(n) ==
  IF n = 0 THEN <<>>
  ELSE fallbackBatchPaths(n - 1)
         \o (IF batchResults[n].status = "fallback"
             THEN [j \in 1..Len(batches[batchResults[n].batch]) |->
                     JSString(batches[batchResults[n].batch][j].path)]
             ELSE <<>>)

\* C12: a result with a summary carries warnings exactly when a batch has
\* outcome "fallback", and the warnings name the paths of the source files
\* of the fallback batches, no other path and none twice.
C12_WarningsNameFallbackBatches ==
  (response.status = 200 /\ "summary" \in DOMAIN response) =>
    /\ ("warnings" \in DOMAIN response) <=>
         (\E k \in 1..Len(batchResults) : batchResults[k].status = "fallback")
    /\ "warnings" \in DOMAIN response =>
         response.warnings.fallbackFiles = fallbackBatchPaths(Len(batchResults))

\* The paths the warnings of the response name; none without warnings.
warnedPaths ==
  IF "warnings" \in DOMAIN response
  THEN {response.warnings.fallbackFiles[n] :
          n \in 1..Len(response.warnings.fallbackFiles)}
  ELSE {}

\* C13: a successful result reports every failure the run recovered from:
\* its warnings name every selected file whose content request failed and
\* every source file of a batch that fell back to stubs.
C13_RecoveredFailuresReported ==
  (pc = "done" /\ response.status = 200) =>
    /\ \A e \in fetchLog :
         e.outcome = "error" =>
           JSString(filesToProcess[e.entry].path) \in warnedPaths
    /\ \A k \in 1..Len(batchResults) :
         batchResults[k].status = "fallback" =>
           \A j \in 1..Len(batches[batchResults[k].batch]) :
             JSString(batches[batchResults[k].batch][j].path) \in warnedPaths

\* fetchFiles has returned the files of a non-empty selection.
fetchReturned ==
  pc \notin {"received", "listing", "fetching", "pausing"} /\ Len(filesToProcess) > 0

\* The selected entry n was retrieved: its content arrived and is within
\* the ceiling.
retrieved(n) ==
  \E e \in fetchLog :
    e.entry = n /\ e.outcome = "content" /\ e.len <= sizeCeiling

RECURSIVE retrievedPaths(_)
\* The paths of the retrieved entries among the first n selected entries,
\* in the Selector's order.
retrievedPaths(n) ==
  IF n = 0 THEN <<>>
  ELSE retrievedPaths(n - 1)
         \o (IF retrieved(n) THEN <<filesToProcess[n].path>> ELSE <<>>)

\* The paths of a sequence of files.
pathsOf(files) == [k \in 1..Len(files) |-> files[k].path]

\* C14: a content request that fails does not abort the run: no response
\* is written while the files are fetched, the fetched sequence is every
\* selected file that was retrieved and none whose request failed, all of
\* them are placed in the batches to convert, and an error response comes
\* only after a call of convertBatch.
C14_FetchFailureSkipsOneFile ==
  /\ pc \in {"fetching", "pausing"} => response = noResponse
  /\ fetchReturned =>
       /\ pathsOf(originals) = retrievedPaths(Len(filesToProcess))
       /\ \A e \in fetchLog :
            e.outcome = "error" =>
              \A k \in 1..Len(originals) :
                originals[k].path # filesToProcess[e.entry].path
       /\ Len(originals) > 0 => pathsOf(flatten(batches)) = pathsOf(originals)
       /\ response.status >= 400 => Len(engineLog) > 0

\* In a fetch of two windows, a request of the first window and the request
\* of the second failed, files after the first failure were fetched, and
\* the batches to convert are planned.
C14_Witness ==
  /\ pc = "converting"
  /\ windowStart > 1
  /\ \E e, f, g \in fetchLog :
       /\ e.outcome = "error" /\ e.entry < batchSize
       /\ f.outcome = "content" /\ f.entry > e.entry /\ f.entry <= batchSize
       /\ g.outcome = "error" /\ g.entry > batchSize
       /\ \E k \in 1..Len(originals) : originals[k].path = filesToProcess[f.entry].path
  /\ Len(flatten(batches)) >= 2

\* The files the Fetcher holds or has returned: in a settled request, in
\* results, in originals and in the batches.
fetchedFiles ==
  {slots[k].file : k \in {j \in 1..Len(slots) : slots[j].state = "file"}}
    \cup {results[k] : k \in 1..Len(results)}
    \cup {originals[k] : k \in 1..Len(originals)}
    \cup {flatten(batches)[k] : k \in 1..Len(flatten(batches))}

\* C15: every file the Fetcher returns is at most sizeCeiling characters
\* long and carries the whole content that arrived for its entry; an entry
\* whose content is longer is in no file the Fetcher returns, and the run
\* goes on without it: no error response before a call of convertBatch.
C15_CeilingExcludesWholeFile ==
  /\ \A f \in fetchedFiles :
       /\ f.size <= sizeCeiling
       /\ f.content.len = f.size
       /\ \E e \in fetchLog :
            /\ filesToProcess[e.entry].path = f.path
            /\ e.outcome = "content"
            /\ e.len = f.content.len
  /\ \A e \in fetchLog :
       e.len > sizeCeiling =>
         /\ \A f \in fetchedFiles : f.path # filesToProcess[e.entry].path
         /\ response.status >= 400 => Len(engineLog) > 0
  /\ fetchReturned =>
       \A e \in fetchLog :
         (e.outcome = "content" /\ e.len <= sizeCeiling) =>
           \E k \in 1..Len(originals) :
             /\ originals[k].path = filesToProcess[e.entry].path
             /\ originals[k].content.len = e.len

\* A content of sizeCeiling + 1 characters arrived and its entry was left
\* out, a content of exactly sizeCeiling characters arrived and was
\* returned whole, and the batches are planned.
C15_Witness ==
  /\ pc = "converting"
  /\ \E e \in fetchLog : e.outcome = "content" /\ e.len = sizeCeiling + 1
  /\ \E e \in fetchLog :
       /\ e.outcome = "content" /\ e.len = sizeCeiling
       /\ \E k \in 1..Len(originals) :
            /\ originals[k].path = filesToProcess[e.entry].path
            /\ originals[k].content.len = sizeCeiling
  /\ Len(originals) = 1

\* Position of the path in the Selector's sequence.
positionOf(path) ==
  CHOOSE n \in 1..Len(filesToProcess) : filesToProcess[n].path = path

\* The files are entries of the Selector's sequence, in its order.
inSelectorOrder(files) ==
  /\ \A k \in 1..Len(files) :
       \E n \in 1..Len(filesToProcess) : filesToProcess[n].path = files[k].path
  /\ \A j, k \in 1..Len(files) :
       j < k => positionOf(files[j].path) < positionOf(files[k].path)

\* C16: whatever the order in which the content requests of a window
\* settle, the files pushed to results and the sequence fetchFiles returns
\* are a subsequence of the Selector's sequence.
C16_FetchedInSelectorOrder ==
  /\ inSelectorOrder(results)
  /\ inSelectorOrder(originals)

\* Every entry of a tree of two windows was retrieved, a request having
\* settled before an earlier request of its window, and fetchFiles has
\* returned.
C16_Witness ==
  /\ pc = "converting"
  /\ overtaken
  /\ windowStart > 1
  /\ Len(originals) = Len(filesToProcess)
  /\ \A e \in fetchLog : e.outcome = "content"

\* fetchFiles has returned no file: the tree listing arrived and no entry
\* was selected, or every content request is settled and none gave a file.
fetchedNothing ==
  /\ pc \notin {"received", "listing", "fetching", "pausing"}
  /\ originals = <<>>
  /\ \/ response.status = 200
     \/ Len(filesToProcess) > 0

\* C17: when fetchFiles returns no file, the response is the success
\* "No relevant files found in repository" with no file, and the run has
\* planned no batch, called neither convertBatch nor createFallbackFiles
\* and sent no request to the LLM; a run without fetched file that ends in
\* an error was rejected by the validation or failed to list the tree.
C17_NoFilesShortCircuit ==
  /\ fetchedNothing =>
       /\ pc = "done"
       /\ response = emptyResponse
       /\ response.status = 200
       /\ "error" \notin DOMAIN response
       /\ batches = <<>>
       /\ batchResults = <<>>
       /\ converted = <<>>
       /\ failedFiles = <<>>
       /\ llmLog = <<>>
       /\ engineLog = <<>>
       /\ inFlight = {}
  /\ (pc = "done" /\ originals = <<>> /\ response.status # 200) =>
       /\ filesToProcess = <<>>
       /\ \/ response.status = 400
          \/ \E message \in ListingErrors : response = errorResponse(500, message)
       /\ fetchLog = {}

\* Every content request of a non-empty selection failed or gave a content
\* above the ceiling, and the run has answered.
C17_Witness ==
  /\ pc = "done"
  /\ Len(filesToProcess) >= 2
  /\ originals = <<>>
  /\ \E e \in fetchLog : e.outcome = "error"
  /\ \E e \in fetchLog : e.outcome = "content" /\ e.len > sizeCeiling
  /\ response = emptyResponse

\* The Selector accepts entry n of the tree.
accepts(n) == n.type = "blob" /\ isRelevantFile(n.path)

\* Entry n of the tree is accepted and not selected.
isCut(n) ==
  /\ \A k \in 1..Len(filesToProcess) : filesToProcess[k] # n
  /\ accepts(n)

\* Entry a goes before entry b: by priority, then by path.
precedes(a, b) ==
  \/ getFilePriority(a.path) < getFilePriority(b.path)
  \/ /\ getFilePriority(a.path) = getFilePriority(b.path)
     /\ localeCompare(a.path, b.path) < 0

\* The tree listing has arrived and the entries are selected.
listed ==
  /\ pc \notin {"received", "listing"}
  /\ response.status # 400
  /\ \A message \in ListingErrors : response # errorResponse(500, message)

\* C18: the selected entries are accepted entries of the tree, as many as
\* there are up to maxEntries, none going after the next by priority and
\* then path, and no accepted entry that is cut off goes before the last
\* of them.
C18_SortedThenTruncated ==
  listed =>
    /\ Len(filesToProcess) =
         minOf(Cardinality({j \in 1..Len(tree) : accepts(tree[j])}), maxEntries)
    /\ \A k \in 1..Len(filesToProcess) :
         /\ accepts(filesToProcess[k])
         /\ \E j \in 1..Len(tree) : tree[j] = filesToProcess[k]
    /\ \A k \in 1..(Len(filesToProcess) - 1) :
         ~precedes(filesToProcess[k + 1], filesToProcess[k])
    /\ \A j \in 1..Len(tree) :
         isCut(tree[j]) => ~precedes(tree[j], filesToProcess[Len(filesToProcess)])

\* A tree with more than maxEntries accepted entries, where an entry that
\* is cut off is listed before the last selected one, the first selected
\* entry is a manifest from the middle of the listing, written with
\* U+212A KELVIN SIGN, a name with "@" is selected after one with "[", and
\* two selected entries with different paths that compare equal follow
\* each other.
C18_Witness ==
  /\ pc = "fetching"
  /\ Len(filesToProcess) = maxEntries
  /\ filesToProcess[1].path = <<"c","f","g","0","0","7","/","P","A","C","U+212A","A","G","E",".","J","S","O","N">>
  /\ tree[1].path # filesToProcess[1].path
  /\ \E k, m \in 1..maxEntries :
       /\ k < m
       /\ filesToProcess[k].path = <<"s","r","c","/","[","i","d","]","0","0","4",".","t","s","x">>
       /\ filesToProcess[m].path = <<"s","r","c","/","@","t","y","p","e","s","/","f","0","0","5",".","t","s">>
  /\ \E k \in 1..(maxEntries - 1) :
       /\ filesToProcess[k].path # filesToProcess[k + 1].path
       /\ localeCompare(filesToProcess[k].path, filesToProcess[k + 1].path) = 0
  /\ \E j \in 1..Len(tree) :
       /\ isCut(tree[j])
       /\ \E k \in (j + 1)..Len(tree) : tree[k] = filesToProcess[maxEntries]

\* The names of the denylisted directories.
deniedDirectories == {
  <<"n","o","d","e","_","m","o","d","u","l","e","s">>, <<".","g","i","t">>, <<".","c","a","c","h","e">>, <<"d","i","s","t">>, <<"b","u","i","l","d">>, <<"c","o","v","e","r","a","g","e">>,
  <<".","n","y","c","_","o","u","t","p","u","t">>, <<".","v","s","c","o","d","e">>, <<".","i","d","e","a">> }

\* The path lies under a denylisted directory: one of its directories has
\* a denylisted name.
liesUnderDenied(path) ==
  \E k \in 1..(Len(split(path, "/")) - 1) :
    split(path, "/")[k] \in deniedDirectories

\* The path ends in .DS_Store or in .log.
hasDeniedSuffix(path) ==
  \/ Len(path) >= 9 /\ SubSeq(path, Len(path) - 8, Len(path)) = <<".","D","S","_","S","t","o","r","e">>
  \/ Len(path) >= 4 /\ SubSeq(path, Len(path) - 3, Len(path)) = <<".","l","o","g">>

\* The path is one of a blob of the tree outside the denylist.
selectable(path) ==
  /\ \E j \in 1..Len(tree) : tree[j].path = path /\ tree[j].type = "blob"
  /\ ~liesUnderDenied(path)
  /\ ~hasDeniedSuffix(path)

\* C19: every entry that is selected, every entry a content request was
\* made for and every file that is fetched or placed in a batch is a blob
\* of the tree that neither lies under a denylisted directory nor ends in
\* .DS_Store or .log.
C19_DenylistedNeverSelected ==
  /\ \A k \in 1..Len(filesToProcess) :
       filesToProcess[k].type = "blob" /\ selectable(filesToProcess[k].path)
  /\ \A e \in fetchLog : selectable(filesToProcess[e.entry].path)
  /\ \A f \in fetchedFiles : selectable(f.path)

\* A tree with an entry under a denylisted directory whose extension is
\* accepted, a directory whose name has an accepted extension and a blob
\* outside the denylist: the blob alone is fetched and placed in a batch.
C19_Witness ==
  /\ pc = "converting"
  /\ \E j \in 1..Len(tree) :
       /\ tree[j].type = "blob"
       /\ liesUnderDenied(tree[j].path)
       /\ isRelevantFile_noSkip(tree[j].path)
  /\ \E j \in 1..Len(tree) :
       tree[j].type = "tree" /\ isRelevantFile(tree[j].path)
  /\ Len(flatten(batches)) = 1
  /\ Len(filesToProcess) = 1

\* The value is an object whose member of that name, the last one if it
\* has several, is a string.
hasText(v, name) ==
  /\ v.t = "object"
  /\ \E k \in 1..Len(v.members) :
       /\ v.members[k].key = name
       /\ v.members[k].value.t = "string"
       /\ \A j \in (k + 1)..Len(v.members) : v.members[j].key # name

\* The entry has a string path and a string content.
wellFormedEntry(v) == hasText(v, <<"p","a","t","h">>) /\ hasText(v, <<"c","o","n","t","e","n","t">>)

\* The parsed reply is an object whose files is a sequence.
hasFilesSequence(v) ==
  /\ v.t = "object"
  /\ \E k \in 1..Len(v.members) :
       /\ v.members[k].key = <<"f","i","l","e","s">>
       /\ v.members[k].value.t = "array"
       /\ \A j \in (k + 1)..Len(v.members) : v.members[j].key # <<"f","i","l","e","s">>

\* The entries of files of such a reply.
entriesOf(v) == getProperty(v, <<"f","i","l","e","s">>).items

\* Positions of the well-formed entries among the entries.
wellFormedPositions(entries) ==
  {n \in 1..Len(entries) : wellFormedEntry(entries[n])}

\* The k-th smallest number of a set of numbers.
kthOf(S, k) == CHOOSE n \in S : Cardinality({m \in S : m < n}) = k - 1

\* C20: for every reply that was parsed, convertBatch returns exactly when
\* the reply is an object whose files is a sequence with a well-formed
\* entry; it then returns the well-formed entries and no other, in the
\* order of the reply; otherwise it raises "missing files array" when files
\* is no sequence and "No valid files" when no entry is well formed.
C20_EngineAcceptsWellFormed ==
  \A c \in 1..Len(engineLog) :
    (engineLog[c].llm.kind = "ok" /\ parseReply(engineLog[c].llm.reply).ok) =>
      LET v == parseReply(engineLog[c].llm.reply).v
          r == engineLog[c].result
      IN /\ r.ok <=> (hasFilesSequence(v) /\ wellFormedPositions(entriesOf(v)) # {})
         /\ r.ok =>
              /\ Len(r.files) = Cardinality(wellFormedPositions(entriesOf(v)))
              /\ \A k \in 1..Len(r.files) :
                   LET e == entriesOf(v)[kthOf(wellFormedPositions(entriesOf(v)), k)]
                   IN /\ r.files[k].path = getProperty(e, <<"p","a","t","h">>)
                      /\ r.files[k].content = getProperty(e, <<"c","o","n","t","e","n","t">>)
                      /\ r.files[k].originalPath = getProperty(e, <<"o","r","i","g","i","n","a","l","P","a","t","h">>)
         /\ (~r.ok /\ ~hasFilesSequence(v)) =>
              r.error = "AI response missing files array"
         /\ (~r.ok /\ hasFilesSequence(v)) =>
              r.error = "No valid files in AI response"

\* A reply between words of prose whose files holds a well-formed entry, an
\* entry whose path is a number and another well-formed entry: the Engine
\* returned the two well-formed entries in that order and the batch is
\* recorded as a success with two files.
C20_Witness ==
  /\ Len(engineLog) = 1
  /\ engineLog[1].llm =
       [kind |-> "ok",
        reply |-> textOf(<<Prose>> \o filesReply(listOf(<<goodEntry, badEntry, bareEntry>>))
                           \o <<Prose>>)]
  /\ engineLog[1].result.ok
  /\ Len(engineLog[1].result.files) = 2
  /\ engineLog[1].result.files[1].path = JSString(<<"a","p","p",".","p","y">>)
  /\ engineLog[1].result.files[2].path = JSString(<<"r","e","a","d","m","e",".","t","x","t">>)
  /\ Len(batchResults) = 1
  /\ batchResults[1].status = "success"
  /\ batchResults[1].fileCount = 2

\* Number of "{" less the number of "}" among the characters from p to q.
braceDepth(text, p, q) ==
  Cardinality({n \in p..q : text[n] = "{"})
    - Cardinality({n \in p..q : text[n] = "}"})

\* The first balanced {...} of the text: from its first "{" to the "}" that
\* closes it; <<>> when the text has no "{" or never closes it.
firstBalanced(text) ==
  LET opens == {n \in 1..Len(text) : text[n] = "{"}
      p == CHOOSE n \in opens : \A m \in opens : n <= m
      ends == {q \in p..Len(text) : braceDepth(text, p, q) = 0}
  IN IF opens = {} THEN <<>>
     ELSE IF ends = {} THEN <<>>
     ELSE SubSeq(text, p, CHOOSE q \in ends : \A m \in ends : q <= m)

\* The Engine raised a Malformed Response failure.
malformedResponse(r) ==
  /\ ~r.ok
  /\ r.error \in {"Failed to parse AI response as JSON",
                  "AI response does not contain valid JSON"}

\* C21: for every reply that is no JSON text as a whole, when its first
\* balanced {...} is JSON text the Engine goes on with the value of that
\* text, whatever stands before or after it: it raises no Malformed Response
\* and returns exactly when that value has a files sequence with a
\* well-formed entry; and a Malformed Response is raised only for a reply
\* that is no JSON text and whose first balanced {...} is missing or no
\* JSON text.
C21_RecoversFirstBalancedObject ==
  \A c \in 1..Len(engineLog) :
    engineLog[c].llm.kind = "ok" =>
      LET reply == engineLog[c].llm.reply
          r == engineLog[c].result
          inner == firstBalanced(reply)
      IN /\ (~JSONparse(reply).ok /\ inner # <<>> /\ JSONparse(inner).ok) =>
              /\ ~malformedResponse(r)
              /\ r.ok <=> /\ hasFilesSequence(JSONparse(inner).v)
                          /\ wellFormedPositions(entriesOf(JSONparse(inner).v)) # {}
         /\ malformedResponse(r) =>
              /\ ~JSONparse(reply).ok
              /\ inner = <<>> \/ ~JSONparse(inner).ok

\* C22: at most one request to the LLM is outstanding; the k-th call of
\* convertBatch is for batch k and the k-th request to the LLM is for a
\* later batch than the one before; while a call for batch b is running,
\* and once it has ended, the outcomes of the batches before b are
\* recorded, one for each in batch order; and the files of a successful
\* result are the files appended for batch 1, then those for batch 2, and
\* so on: the Engine's files of a batch that succeeded, the stubs of the
\* files of a batch that fell back.
C22_OneBatchAtATime ==
  /\ Cardinality(inFlight) <= 1
  /\ pc = "awaiting" <=> inFlight # {}
  /\ \A b \in inFlight : b = i /\ Len(batchResults) = b - 1 /\ Len(engineLog) = b - 1
  /\ \A k \in 1..Len(engineLog) :
       /\ engineLog[k].batch = k
       /\ Len(batchResults) >= k - 1
  /\ \A k \in 1..Len(batchResults) : batchResults[k].batch = k
  /\ \A k \in 1..(Len(llmLog) - 1) : llmLog[k] < llmLog[k + 1]
  /\ \A k \in 1..Len(llmLog) :
       llmLog[k] \in inFlight \/ \E c \in 1..Len(engineLog) : engineLog[c].batch = llmLog[k]
  /\ (response.status = 200 /\ "summary" \in DOMAIN response) =>
       /\ Len(engineLog) = Len(batches)
       /\ Len(response.files) = appendedBefore(Len(engineLog) + 1)
       /\ response.files = converted
       /\ \A k \in 1..Len(engineLog) :
            IF engineLog[k].result.ok
            THEN appendedFor(k) = engineLog[k].result.files
            ELSE stubsOf(appendedFor(k), batches[k])

\* A run of two batches or more whose first batch fell back and whose
\* second was converted has answered: the result lists the stubs of the
\* first batch before the Engine's files of the second.
C22_Witness ==
  /\ pc = "done"
  /\ response.status = 200
  /\ Len(batches) >= 2
  /\ Len(llmLog) = Len(batches)
  /\ ~engineLog[1].result.ok
  /\ engineLog[2].result.ok
  /\ truthy(response.files[1].isFallback)
  /\ response.files[Len(batches[1]) + 1] = engineLog[2].result.files[1]

\* C23: in a run that has planned its batches and has ended, every batch
\* was given to convertBatch exactly once, in the state the Planner left it
\* in, and has exactly one outcome: "success" when its own call returned,
\* "fallback", with stubs of its own files, when its own call raised,
\* whatever the outcomes of the batches before it; and the run has answered
\* with a success.
C23_BatchesIndependent ==
  /\ batches # <<>> => batches = planBatches(originals)
  /\ \A k \in 1..Len(batchResults) :
       /\ k <= Len(engineLog)
       /\ batchResults[k].status \in {"success", "fallback"}
       /\ batchResults[k].status = "success" <=> engineLog[k].result.ok
       /\ batchResults[k].status = "fallback" =>
            stubsOf(appendedFor(k), batches[k])
  /\ (pc = "done" /\ batches # <<>>) =>
       /\ response.status = 200
       /\ Len(engineLog) = Len(batches)
       /\ Len(batchResults) = Len(batches)
       /\ \A b \in 1..Len(batches) :
            Cardinality({c \in 1..Len(engineLog) : engineLog[c].batch = b}) = 1

\* The batches pack the files greedily under the limit: no batch is empty,
\* a batch of several files is within the limit (no file was added to a
\* non-empty batch that it would push above the limit), and the first file
\* of each later batch would have pushed the batch before it above the
\* limit (no batch was closed before it had to be).
greedyPacked(bs, limit) ==
  /\ \A b \in 1..Len(bs) : Len(bs[b]) > 0
  /\ \A b \in 1..Len(bs) : Len(bs[b]) >= 2 => totalSize(bs[b]) <= limit
  /\ \A b \in 1..(Len(bs) - 1) :
       totalSize(bs[b]) + bs[b + 1][1].content.len > limit

\* The lengths of the contents of a sequence of files.
sizesOf(files) == [k \in 1..Len(files) |-> files[k].content.len]

\* C24: the batches of the handler are the fetched files in input order,
\* packed greedily under sizeLimit; those of its earlier revision are the
\* same files packed greedily under its limit of 40000, and for three
\* files of 30000 characters they are three batches of one file each.
C24_PlannerGreedy ==
  pc = "converting" =>
    /\ flatten(batches) = originals
    /\ greedyPacked(batches, sizeLimit)
    /\ flatten(planBatchesReduced(originals)) = originals
    /\ greedyPacked(planBatchesReduced(originals), sizeLimitReduced)
    /\ sizesOf(originals) = <<30000, 30000, 30000>> =>
         planBatchesReduced(originals) =
           <<<<originals[1]>>, <<originals[2]>>, <<originals[3]>>>>

\* Three files of 30000 characters were fetched: the handler placed two of
\* them in its first batch and the third in a second batch, and the earlier
\* revision makes three batches of them.
C24_Witness ==
  /\ pc = "converting"
  /\ sizesOf(originals) = <<30000, 30000, 30000>>
  /\ Len(batches) = 2
  /\ Len(batches[1]) = 2
  /\ Len(planBatchesReduced(originals)) = 3

\* The file names of the dependency manifests, in lower case.
manifestNames == {
  <<"p","a","c","k","a","g","e",".","j","s","o","n">>, <<"r","e","q","u","i","r","e","m","e","n","t","s",".","t","x","t">>, <<"g","e","m","f","i","l","e">>, <<"c","a","r","g","o",".","t","o","m","l">>,
  <<"p","o","m",".","x","m","l">>, <<"c","o","m","p","o","s","e","r",".","j","s","o","n">> }

\* The priority the file name of the path gives: 1 for a manifest, 2 for a
\* name that holds an entry point marker, 3 otherwise.
priorityByName(path) ==
  LET name == toLowerCase(fileNameOf(path))
  IN IF name \in manifestNames THEN 1
     ELSE IF \/ includes(name, <<"m","a","i","n">>) \/ includes(name, <<"i","n","d","e","x">>)
             \/ includes(name, <<"a","p","p",".">>) \/ includes(name, <<"s","e","r","v","e","r",".">>)
     THEN 2
     ELSE 3

\* C25: the priority of every fetched file is the one its file name gives,
\* whatever the directories of its path.
C25_PriorityFromFileName ==
  \A f \in fetchedFiles : f.priority = priorityByName(f.path)

\* The stubs of the result: the files flagged as fallback.
stubPositions == {k \in 1..Len(converted) : truthy(converted[k].isFallback)}

\* The fetched file that the stub at position k names as its original.
originalOf(k) ==
  CHOOSE o \in {originals[j] : j \in 1..Len(originals)} :
    JSString(o.path) = converted[k].originalPath

\* C26 as stated: every stub carries the marker and embeds at most the
\* first excerptLimit characters of its original, and never the whole of
\* it, whatever the length of the original.
C26_StubNeverEmbedsWhole ==
  \A k \in stubPositions :
    /\ converted[k].content.stub.marker = "FALLBACK CONVERSION - NEEDS MANUAL REVIEW"
    /\ converted[k].content.stub.excerptLen <= excerptLimit
    /\ converted[k].content.stub.excerptLen < originalOf(k).content.len

\* C26 as amended: every stub carries the marker and embeds the first
\* characters of its original, excerptLimit of them at most: the whole of
\* an original of at most excerptLimit characters, and the first
\* excerptLimit characters, marked as truncated, of a longer one.
C26_StubEmbedsBoundedExcerpt ==
  \A k \in stubPositions :
    LET stub == converted[k].content.stub
        len == originalOf(k).content.len
    IN /\ stub.marker = "FALLBACK CONVERSION - NEEDS MANUAL REVIEW"
       /\ stub.originalFile = originalOf(k).path
       /\ stub.excerptLen <= excerptLimit
       /\ stub.excerptLen = minOf(len, excerptLimit)
       /\ stub.truncated <=> len > excerptLimit
       /\ len > excerptLimit => stub.excerptLen < len

\* A batch of a file of 500 characters and a file of 50000 characters fell
\* back: the first stub embeds its original whole, the second the first
\* excerptLimit characters of its original, marked as truncated.
C26_Witness ==
  /\ pc = "done"
  /\ Len(converted) = 2
  /\ stubPositions = {1, 2}
  /\ \E j, k \in stubPositions :
       /\ originalOf(j).content.len = 500
       /\ converted[j].content.stub.excerptLen = 500
       /\ ~converted[j].content.stub.truncated
       /\ originalOf(k).content.len = 50000
       /\ converted[k].content.stub.excerptLen = excerptLimit
       /\ converted[k].content.stub.truncated

\* The callers of res.json that are timers.
timerWriters == {"requestTimer", "responseTimer"}

\* The calls of res.json that sent their response.
written == SelectSeq(resWrites, LAMBDA w : w.sent)

C28_StubPathsDistinct ==
  \A j, k \in stubPositions :
    converted[j].originalPath # converted[k].originalPath =>
      converted[j].path # converted[k].path

\* The directory of the path with its "/", empty for a path without "/".
directoryOf(path) ==
  LET S == sepPositions(path, "/")
  IN IF S = {} THEN <<>>
     ELSE SubSeq(path, 1, CHOOSE s \in S : \A r \in S : r <= s)

\* The file name of the path without its extension: up to its last ".",
\* or whole when it has none.
baseNameOf(path) ==
  LET name == SubSeq(path, Len(directoryOf(path)) + 1, Len(path))
      D == sepPositions(name, ".")
  IN IF D = {} THEN name
     ELSE SubSeq(name, 1, (CHOOSE d \in D : \A e \in D : e <= d) - 1)

\* C29: the path of every stub is the directory and the base file name of
\* its original followed by the extension of the target's language, also
\* for an original whose file name has no ".".
C29_StubKeepsDirectoryAndName ==
  \A k \in stubPositions :
    LET orig == converted[k].originalPath.s
    IN converted[k].path =
         JSString(directoryOf(orig) \o baseNameOf(orig)
                    \o targetExtension(toLowerCase(body.target.language.s)))

RECURSIVE sumFileCount(_)
\* The sum of fileCount over the outcomes.
sumFileCount(outcomes) ==
  IF outcomes = <<>> THEN 0
  ELSE Head(outcomes).fileCount + sumFileCount(Tail(outcomes))

RECURSIVE sumBatchSizes(_)
\* The sum of the numbers of files of the batches.
sumBatchSizes(bs) ==
  IF bs = <<>> THEN 0 ELSE Len(Head(bs)) + sumBatchSizes(Tail(bs))

\* C30: in a success result with a summary, totalConvertedFiles is the
\* number of files of the result, the sum of successfullyConverted and
\* fallbackFiles and the sum of fileCount over batchResults;
\* totalOriginalFiles is the sum of the sizes of the batches; and
\* batchResults has one entry for each planned batch, in batch order.
C30_SummaryCountsConsistent ==
  (response.status = 200 /\ "summary" \in DOMAIN response) =>
    LET summary == response.summary
    IN /\ summary.totalConvertedFiles = Len(response.files)
       /\ summary.totalConvertedFiles =
            summary.successfullyConverted + summary.fallbackFiles
       /\ summary.totalConvertedFiles = sumFileCount(summary.batchResults)
       /\ summary.totalOriginalFiles = sumBatchSizes(batches)
       /\ Len(summary.batchResults) = Len(batches)
       /\ \A b \in 1..Len(batches) : summary.batchResults[b].batch = b

\* A run has answered whose batch of two files was converted to one file
\* and whose other batch fell back: fewer files in the result than were
\* fetched, and files of both kinds.
C30_Witness ==
  /\ pc = "done"
  /\ response.status = 200
  /\ "summary" \in DOMAIN response
  /\ \E b \in 1..Len(batches) :
       /\ Len(batches[b]) = 2
       /\ batchResults[b].status = "success"
       /\ batchResults[b].fileCount = 1
  /\ \E b \in 1..Len(batches) : batchResults[b].status = "fallback"
  /\ response.summary.totalConvertedFiles < response.summary.totalOriginalFiles
  /\ response.summary.successfullyConverted > 0
  /\ response.summary.fallbackFiles > 0
====
